---------------------------- MODULE Spec2Model ----------------------------
(***************************************************************************)
(* Model of the requiem QUIC NIF (native/requiem_nif/src/lib.rs): the      *)
(* per-connection driver `Connection` around a quiche engine, and the NIF  *)
(* entry points that take the connection's mutex.                          *)
(*                                                                         *)
(* The quiche engine is an external library.  It is modelled by its        *)
(* observable interface: a small abstract state (closed flag, handshake    *)
(* phase, pending outbound packets, readable stream bytes, received        *)
(* datagrams, timer, per-stream send buffer) and, for every engine call    *)
(* whose outcome the driver cannot determine, an answer chosen by the      *)
(* environment.  The driver code itself is translated statement by         *)
(* statement.                                                              *)
(***************************************************************************)
EXTENDS Integers, Sequences, FiniteSets, TLC

(***************************************************************************)
(* Bounds of the model and program constants.                              *)
(***************************************************************************)
MaxOut == 2            \* packets/faults one engine call may leave pending
MaxData == 2           \* bytes the host hands to stream_send / dgram_send
MaxCalls == 2          \* NIF calls per thread in the threaded specification
MaxDgrams == 2         \* datagrams and errors that arrive at the socket
MaxConnCalls == 1      \* connection NIF calls per thread beside the registry NIFs

BufSize == 1350        \* Connection.buf: [u8; 1350]
DefaultTimeout == 60000
MaxDatagram == 1350
MinHeader == 4
FailCode == 1          \* 0x1 in drain's forced close

Streams == {0, 4}
SendStreams == {0}      \* the streams the host writes to
Bytes == {1, 2}
Phases == {"handshake", "early", "established"}

Min(a, b) == IF a < b THEN a ELSE b

SeqsUpTo(S, n) == UNION {[1..k -> S] : k \in 0..n}

Take(s, n) == SubSeq(s, 1, n)
Drop(s, n) == SubSeq(s, n + 1, Len(s))

(***************************************************************************)
(* Outbound items: what successive engine send() calls will answer.  A     *)
(* packet has a length and the timer value the engine reports once it has  *)
(* been sent; a fault is a send() that fails with an error other than     *)
(* Done.                                                                   *)
(***************************************************************************)
PktLong == [k |-> "pkt", len |-> 1200, arm |-> <<1500>>]
PktShort == [k |-> "pkt", len |-> 40, arm |-> <<25999>>]
Fault == [k |-> "fault", len |-> 0, arm |-> <<>>]
OutItems == {PktLong, PktShort, Fault}
OutSeqs == SeqsUpTo(OutItems, MaxOut)

\* Engine timer values in microseconds (std::time::Duration); <<>> is None.
TimerVals == {<<>>, <<5000999>>}

Datas == SeqsUpTo(Bytes, MaxData)

(***************************************************************************)
(* The engine (quiche::Connection) as the driver observes it.              *)
(***************************************************************************)
EngInit ==
    [closed |-> FALSE, closing |-> FALSE, rcvd |-> FALSE,
     phase |-> "handshake", outq |-> <<>>, rx |-> [s \in Streams |-> 0], dgq |-> <<>>,
     timer |-> <<>>,
     tx |-> [s \in Streams |-> <<>>], fin |-> [s \in Streams |-> FALSE]]

\* One trace entry: an engine call with its answer, or a notification sent
\* to the host process (k is the atom: __stream_recv__, __dgram_recv__,
\* __drain__).
Ev(k, r, v) == [k |-> k, r |-> r, v |-> v]

IsNote(ev) == ev.k \in {"__stream_recv__", "__dgram_recv__", "__drain__"}

\* the notifications of a trace, in the order sent
Notes(tr) == SelectSeq(tr, IsNote)

\* quiche::Connection::is_closed
EngIsClosed(e) == e.closed

\* quiche::Connection::is_in_early_data / is_established
EngIsInEarlyData(e) == e.phase = "early"
EngIsEstablished(e) == e.phase = "established"

\* quiche::Connection::recv(packet): the packet descriptor p says whether the
\* engine accepts it and what it then holds.
EngRecv(e, p) ==
    IF ~p.accept
    THEN [e |-> e, r |-> "err"]
    ELSE [e |-> [e EXCEPT !.rcvd = TRUE, !.phase = p.phase,
                          !.rx = [s \in Streams |-> e.rx[s] + p.rx[s]],
                          !.dgq = e.dgq \o p.dg,
                          !.outq = e.outq \o p.out,
                          !.timer = p.tmo],
          r |-> "ok"]

\* A closed engine: nothing of it is observable but is_closed().
EngClosed == [EngInit EXCEPT !.closed = TRUE, !.closing = TRUE]

\* quiche::Connection::close(app, err, reason): Done when a close was already
\* requested; otherwise the environment's answer a ("ok" or "err").  An
\* accepted close leaves the connection closing with its CONNECTION_CLOSE
\* packet pending, or, when no packet was ever processed, closed at once.
EngClose(e, a) ==
    IF e.closing
    THEN [e |-> e, r |-> "done"]
    ELSE IF a = "err"
    THEN [e |-> e, r |-> "err"]
    ELSE IF ~e.rcvd
    THEN [e |-> EngClosed, r |-> "ok"]
    ELSE [e |-> [e EXCEPT !.closing = TRUE, !.outq = e.outq \o <<PktShort>>],
          r |-> "ok"]

\* quiche::Connection::send(buf): the next pending packet, Done when nothing
\* is pending, or a hard failure.
EngSend(e) ==
    IF e.outq = <<>>
    THEN [e |-> e, r |-> "done", v |-> Fault]
    ELSE LET h == Head(e.outq) IN
         IF h.k = "fault"
         THEN [e |-> [e EXCEPT !.outq = Tail(e.outq)], r |-> "err", v |-> h]
         ELSE [e |-> [e EXCEPT !.outq = Tail(e.outq), !.timer = h.arm],
               r |-> "ok", v |-> h]

\* quiche::Connection::timeout
EngTimeout(e) == e.timer

\* quiche::Connection::stream_recv(s, buf): up to cap readable bytes of s.
EngStreamRecv(e, s, cap) ==
    IF e.rx[s] = 0
    THEN [e |-> e, r |-> "done", len |-> 0]
    ELSE LET n == Min(e.rx[s], cap) IN
         [e |-> [e EXCEPT !.rx[s] = e.rx[s] - n], r |-> "ok", len |-> n]

\* quiche::Connection::readable: the streams holding readable bytes.
EngReadable(e) == {s \in Streams : e.rx[s] > 0}

\* quiche::Connection::dgram_recv(buf)
EngDgramRecv(e, cap) ==
    IF e.dgq = <<>>
    THEN [e |-> e, r |-> "done", len |-> 0]
    ELSE IF Head(e.dgq) > cap
    THEN [e |-> e, r |-> "err", len |-> 0]
    ELSE [e |-> [e EXCEPT !.dgq = Tail(e.dgq)], r |-> "ok", len |-> Head(e.dgq)]

\* quiche::Connection::stream_send(s, d, fin): the environment's verdict v is
\* the room the stream has for this write ("cap" n, or "all"), Done, or a
\* rejection.  A write of bytes past a stream's final size is rejected
\* (Error::FinalSize); a write that buffers all of d with fin set fixes the
\* final size.  Buffered bytes leave one packet pending.
Verdicts == {[r |-> "cap", n |-> 0], [r |-> "cap", n |-> 1],
             [r |-> "done", n |-> 0], [r |-> "err", n |-> 0]}
AcceptAll == [r |-> "all", n |-> 0]
Scripts == SeqsUpTo(Verdicts, MaxData)

EngStreamSend(e, s, d, fin, v) ==
    IF v.r = "err" THEN [e |-> e, r |-> "err", len |-> 0]
    ELSE IF v.r = "done" THEN [e |-> e, r |-> "done", len |-> 0]
    ELSE IF e.fin[s] /\ Len(d) > 0
    THEN [e |-> e, r |-> "final_size", len |-> 0]
    ELSE LET n == IF v.r = "all" THEN Len(d) ELSE Min(v.n, Len(d)) IN
         [e |-> [e EXCEPT !.tx[s] = e.tx[s] \o Take(d, n),
                          !.fin[s] = e.fin[s] \/ (fin /\ n = Len(d)),
                          !.outq = IF n > 0 THEN e.outq \o <<PktShort>>
                                   ELSE e.outq],
          r |-> "ok", len |-> n]

\* quiche::Connection::dgram_send(data): the environment's answer a.
EngDgramSend(e, d, a) ==
    IF a = "ok"
    THEN [e |-> [e EXCEPT !.outq = e.outq \o <<PktShort>>], r |-> "ok"]
    ELSE [e |-> e, r |-> a]

\* quiche::Connection::on_timeout: the timer that fired either ends the
\* connection (idle or draining timer) or leaves retransmissions pending.
EngOnTimeout(e, o) ==
    IF o.expire
    THEN EngClosed
    ELSE [e EXCEPT !.outq = e.outq \o o.out, !.timer = o.tmo]

(***************************************************************************)
(* impl Connection (lib.rs 178-393).  Every operator returns the engine    *)
(* after the call, the call's result (where it has one) and the trace of   *)
(* engine calls and notifications in program order.                        *)
(***************************************************************************)
Ok(v) == [k |-> "ok", v |-> v]
Err(atom) == [k |-> atom, v |-> 0]

\* the `loop` of fn drain
RECURSIVE drain_loop(_)
drain_loop(e) ==
    LET a == EngSend(e) IN
    CASE a.r = "ok" ->
           LET rest == drain_loop(a.e) IN
           [e |-> rest.e,
            tr |-> <<Ev("send", "ok", a.v), Ev("__drain__", "", a.v)>>
                   \o rest.tr]
      [] a.r = "done" ->
           [e |-> a.e, tr |-> <<Ev("send", "done", a.v)>>]
      [] OTHER ->
           LET c == EngClose(a.e, "ok") IN
           [e |-> c.e,
            tr |-> <<Ev("send", "err", a.v),
                     Ev("close", c.r, <<FALSE, FailCode, "fail">>)>>]

\* drain going on pulling after a hard failure
RECURSIVE drain_loop_no_break(_)
drain_loop_no_break(e) ==
    LET a == EngSend(e) IN
    CASE a.r = "ok" ->
           LET rest == drain_loop_no_break(a.e) IN
           [e |-> rest.e,
            tr |-> <<Ev("send", "ok", a.v), Ev("__drain__", "", a.v)>>
                   \o rest.tr]
      [] a.r = "done" ->
           [e |-> a.e, tr |-> <<Ev("send", "done", a.v)>>]
      [] OTHER ->
           LET c == EngClose(a.e, "ok")
               rest == drain_loop_no_break(c.e)
           IN [e |-> rest.e,
               tr |-> <<Ev("send", "err", a.v),
                        Ev("close", c.r, <<FALSE, FailCode, "fail">>)>>
                      \o rest.tr]

drain_no_break(e) ==
    LET lp == drain_loop_no_break(e) IN
    [e |-> lp.e, tr |-> <<Ev("drain", "enter", 0)>> \o lp.tr]

\* drain pulling one packet only
drain_one_packet(e) ==
    LET a == EngSend(e) IN
    CASE a.r = "ok" ->
           [e |-> a.e,
            tr |-> <<Ev("drain", "enter", 0), Ev("send", "ok", a.v),
                     Ev("__drain__", "", a.v)>>]
      [] a.r = "done" ->
           [e |-> a.e,
            tr |-> <<Ev("drain", "enter", 0), Ev("send", "done", a.v)>>]
      [] OTHER ->
           LET c == EngClose(a.e, "ok") IN
           [e |-> c.e,
            tr |-> <<Ev("drain", "enter", 0), Ev("send", "err", a.v),
                     Ev("close", c.r, <<FALSE, FailCode, "fail">>)>>]

\* fn drain; its entry is marked in the trace
drain(e) ==
    LET lp == drain_loop(e) IN
    [e |-> lp.e, tr |-> <<Ev("drain", "enter", 0)>> \o lp.tr]

\* next_timeout converting with as_secs
next_timeout_secs(e) ==
    LET t == EngTimeout(e) IN
    [v |-> IF t # <<>> THEN t[1] \div 1000000 ELSE DefaultTimeout,
     tr |-> <<Ev("timeout", "ok", t)>>]

\* fn next_timeout: Duration::as_millis, or 60000.
next_timeout(e) ==
    LET t == EngTimeout(e) IN
    [v |-> IF t # <<>> THEN t[1] \div 1000 ELSE DefaultTimeout,
     tr |-> <<Ev("timeout", "ok", t)>>]

\* reading a stream once only
read_stream_once(e, s) ==
    LET a == EngStreamRecv(e, s, BufSize) IN
    IF a.r = "ok"
    THEN [e |-> a.e,
          tr |-> <<Ev("stream_recv", "ok", <<s, a.len>>),
                   Ev("__stream_recv__", "", <<s, a.len>>)>>]
    ELSE [e |-> a.e, tr |-> <<Ev("stream_recv", a.r, <<s, 0>>)>>]

\* the inner `while let Ok(..) = self.conn.stream_recv(s, &mut self.buf)`
RECURSIVE read_stream(_, _)
read_stream(e, s) ==
    LET a == EngStreamRecv(e, s, BufSize) IN
    IF a.r = "ok"
    THEN LET rest == read_stream(a.e, s) IN
         [e |-> rest.e,
          tr |-> <<Ev("stream_recv", "ok", <<s, a.len>>),
                   Ev("__stream_recv__", "", <<s, a.len>>)>> \o rest.tr]
    ELSE [e |-> a.e, tr |-> <<Ev("stream_recv", a.r, <<s, 0>>)>>]

\* the iterator quiche::Connection::readable returns: the readable streams
\* in the order ord, which is the engine's
ReadableIter(e, ord) == SelectSeq(ord, LAMBDA s : s \in EngReadable(e))

\* `for s in self.conn.readable()`, over the streams readable at the call, in
\* the order the iterator ss yields them
RECURSIVE each_readable(_, _)
each_readable(e, ss) ==
    IF ss = <<>>
    THEN [e |-> e, tr |-> <<>>]
    ELSE LET one == read_stream(e, Head(ss))
             rest == each_readable(one.e, Tail(ss))
         IN [e |-> rest.e, tr |-> one.tr \o rest.tr]

\* handle_stream delivering in every phase of the handshake
handle_stream_any_phase(e, ord) == each_readable(e, ReadableIter(e, ord))

\* fn handle_stream; ord is the order in which the engine's readable()
\* yields the streams
handle_stream(e, ord) ==
    IF EngIsInEarlyData(e) \/ EngIsEstablished(e)
    THEN each_readable(e, ReadableIter(e, ord))
    ELSE [e |-> e, tr |-> <<>>]

\* the `while let Ok(len) = self.conn.dgram_recv(&mut self.buf)`
RECURSIVE read_dgrams(_)
read_dgrams(e) ==
    LET a == EngDgramRecv(e, BufSize) IN
    IF a.r = "ok"
    THEN LET rest == read_dgrams(a.e) IN
         [e |-> rest.e,
          tr |-> <<Ev("dgram_recv", "ok", a.len),
                   Ev("__dgram_recv__", "", a.len)>> \o rest.tr]
    ELSE [e |-> a.e, tr |-> <<Ev("dgram_recv", a.r, 0)>>]

\* fn handle_dgram
handle_dgram(e) ==
    IF EngIsInEarlyData(e) \/ EngIsEstablished(e)
    THEN read_dgrams(e)
    ELSE [e |-> e, tr |-> <<>>]

\* on_packet delivering datagrams before streams
on_packet_dgram_first(e, p) ==
    IF ~EngIsClosed(e)
    THEN LET a == EngRecv(e, p) IN
         IF a.r = "ok"
         THEN LET hd == handle_dgram(a.e)
                  hs == handle_stream(hd.e, p.ord)
                  dr == drain(hs.e)
                  nt == next_timeout(dr.e)
              IN [e |-> dr.e, ret |-> Ok(nt.v),
                  tr |-> <<Ev("recv", "ok", 0)>> \o hd.tr \o hs.tr \o dr.tr
                         \o nt.tr]
         ELSE [e |-> a.e, ret |-> Err("system_error"),
               tr |-> <<Ev("recv", "err", 0)>>]
    ELSE [e |-> e, ret |-> Err("already_closed"), tr |-> <<>>]

\* on_packet running drain although the engine refused the packet
on_packet_drain_on_reject(e, p) ==
    IF ~EngIsClosed(e)
    THEN LET a == EngRecv(e, p) IN
         IF a.r = "ok"
         THEN LET hs == handle_stream(a.e, p.ord)
                  hd == handle_dgram(hs.e)
                  dr == drain(hd.e)
                  nt == next_timeout(dr.e)
              IN [e |-> dr.e, ret |-> Ok(nt.v),
                  tr |-> <<Ev("recv", "ok", 0)>> \o hs.tr \o hd.tr \o dr.tr
                         \o nt.tr]
         ELSE LET dr == drain(a.e) IN
              [e |-> dr.e, ret |-> Err("system_error"),
               tr |-> <<Ev("recv", "err", 0)>> \o dr.tr]
    ELSE [e |-> e, ret |-> Err("already_closed"), tr |-> <<>>]

\* fn on_packet
on_packet(e, p) ==
    IF ~EngIsClosed(e)
    THEN LET a == EngRecv(e, p) IN
         IF a.r = "ok"
         THEN LET hs == handle_stream(a.e, p.ord)
                  hd == handle_dgram(hs.e)
                  dr == drain(hd.e)
                  nt == next_timeout(dr.e)
              IN [e |-> dr.e, ret |-> Ok(nt.v),
                  tr |-> <<Ev("recv", "ok", 0)>> \o hs.tr \o hd.tr \o dr.tr
                         \o nt.tr]
         ELSE [e |-> a.e, ret |-> Err("system_error"),
               tr |-> <<Ev("recv", "err", 0)>>]
    ELSE [e |-> e, ret |-> Err("already_closed"), tr |-> <<>>]

\* the loop draining only once every byte is accepted
RECURSIVE send_loop_drain_at_end(_, _, _, _, _)
send_loop_drain_at_end(e, sid, data, pos, script) ==
    LET v == IF script = <<>> THEN AcceptAll ELSE Head(script)
        more == IF script = <<>> THEN <<>> ELSE Tail(script)
        a == EngStreamSend(e, sid, Drop(data, pos), TRUE, v)
        w == Ev("stream_send", a.r, <<sid, pos, a.len>>)
    IN CASE a.r = "ok" ->
              IF pos + a.len >= Len(data)
              THEN LET dr == drain(a.e) IN
                   [e |-> dr.e, k |-> "ok", tr |-> <<w>> \o dr.tr]
              ELSE LET rest == send_loop_drain_at_end(a.e, sid, data,
                                                      pos + a.len, more)
                   IN [e |-> rest.e, k |-> rest.k, tr |-> <<w>> \o rest.tr]
         [] a.r = "done" -> [e |-> a.e, k |-> "ok", tr |-> <<w>>]
         [] OTHER -> [e |-> a.e, k |-> "system_error", tr |-> <<w>>]

\* the loop offering the caller's data from its start on every write
RECURSIVE send_loop_from_start(_, _, _, _, _)
send_loop_from_start(e, sid, data, pos, script) ==
    LET v == IF script = <<>> THEN AcceptAll ELSE Head(script)
        more == IF script = <<>> THEN <<>> ELSE Tail(script)
        a == EngStreamSend(e, sid, data, TRUE, v)
        w == Ev("stream_send", a.r, <<sid, pos, a.len>>)
    IN CASE a.r = "ok" ->
              LET dr == drain(a.e) IN
              IF pos + a.len >= Len(data)
              THEN [e |-> dr.e, k |-> "ok", tr |-> <<w>> \o dr.tr]
              ELSE LET rest == send_loop_from_start(dr.e, sid, data,
                                                    pos + a.len, more)
                   IN [e |-> rest.e, k |-> rest.k,
                       tr |-> <<w>> \o dr.tr \o rest.tr]
         [] a.r = "done" -> [e |-> a.e, k |-> "ok", tr |-> <<w>>]
         [] OTHER -> [e |-> a.e, k |-> "system_error", tr |-> <<w>>]

\* the `loop` of fn stream_send, from cursor pos; script holds the engine's
\* verdicts for the coming writes (when exhausted the stream has room)
RECURSIVE send_loop(_, _, _, _, _)
send_loop(e, sid, data, pos, script) ==
    LET v == IF script = <<>> THEN AcceptAll ELSE Head(script)
        more == IF script = <<>> THEN <<>> ELSE Tail(script)
        a == EngStreamSend(e, sid, Drop(data, pos), TRUE, v)
        w == Ev("stream_send", a.r, <<sid, pos, a.len>>)
    IN CASE a.r = "ok" ->
              LET dr == drain(a.e) IN
              IF pos + a.len >= Len(data)
              THEN [e |-> dr.e, k |-> "ok", tr |-> <<w>> \o dr.tr]
              ELSE LET rest == send_loop(dr.e, sid, data, pos + a.len, more)
                   IN [e |-> rest.e, k |-> rest.k,
                       tr |-> <<w>> \o dr.tr \o rest.tr]
         [] a.r = "done" -> [e |-> a.e, k |-> "ok", tr |-> <<w>>]
         [] OTHER -> [e |-> a.e, k |-> "system_error", tr |-> <<w>>]

\* fn stream_send inside `if !self.conn.is_closed()`: the loop with the
\* cursor at 0 and what follows it
stream_send_open(e, sid, data, script) ==
    LET lp == send_loop(e, sid, data, 0, script) IN
    IF lp.k = "ok"
    THEN LET nt == next_timeout(lp.e) IN
         [e |-> lp.e, ret |-> Ok(nt.v), tr |-> lp.tr \o nt.tr]
    ELSE [e |-> lp.e, ret |-> Err("system_error"), tr |-> lp.tr]

\* fn stream_send
stream_send(e, sid, data, script) ==
    IF ~EngIsClosed(e)
    THEN stream_send_open(e, sid, data, script)
    ELSE [e |-> e, ret |-> Err("already_closed"), tr |-> <<>>]

\* fn dgram_send
dgram_send(e, data, a) ==
    IF ~EngIsClosed(e)
    THEN LET g == EngDgramSend(e, data, a) IN
         IF g.r = "ok"
         THEN LET dr == drain(g.e)
                  nt == next_timeout(dr.e)
              IN [e |-> dr.e, ret |-> Ok(nt.v),
                  tr |-> <<Ev("dgram_send", "ok", data)>> \o dr.tr \o nt.tr]
         ELSE [e |-> g.e, ret |-> Err("system_error"),
               tr |-> <<Ev("dgram_send", g.r, data)>>]
    ELSE [e |-> e, ret |-> Err("already_closed"), tr |-> <<>>]

\* on_timeout without the is_closed() test
on_timeout_unchecked(e, o) ==
    LET t == EngOnTimeout(e, o)
        dr == drain(t)
        nt == next_timeout(dr.e)
    IN [e |-> dr.e, ret |-> Ok(nt.v),
        tr |-> <<Ev("on_timeout", "ok", 0)>> \o dr.tr \o nt.tr]

\* fn on_timeout
on_timeout(e, o) ==
    IF ~EngIsClosed(e)
    THEN LET t == EngOnTimeout(e, o)
             dr == drain(t)
             nt == next_timeout(dr.e)
         IN [e |-> dr.e, ret |-> Ok(nt.v),
             tr |-> <<Ev("on_timeout", "ok", 0)>> \o dr.tr \o nt.tr]
    ELSE [e |-> e, ret |-> Err("already_closed"), tr |-> <<>>]

\* fn is_closed
is_closed(e) == EngIsClosed(e)

\* close forgetting to drain
close_no_drain(e, c, a) ==
    IF ~EngIsClosed(e)
    THEN LET g == EngClose(e, a)
             w == Ev("close", g.r, <<c.app, c.err, c.reason>>)
         IN IF g.r \in {"ok", "done"}
            THEN [e |-> g.e, ret |-> Ok(0), tr |-> <<w>>]
            ELSE [e |-> g.e, ret |-> Err("system_error"), tr |-> <<w>>]
    ELSE [e |-> e, ret |-> Err("already_closed"), tr |-> <<>>]

\* close reporting the engine's Done as an error
close_done_is_error(e, c, a) ==
    IF ~EngIsClosed(e)
    THEN LET g == EngClose(e, a)
             w == Ev("close", g.r, <<c.app, c.err, c.reason>>)
         IN IF g.r = "ok"
            THEN LET dr == drain(g.e) IN
                 [e |-> dr.e, ret |-> Ok(0), tr |-> <<w>> \o dr.tr]
            ELSE [e |-> g.e, ret |-> Err("system_error"), tr |-> <<w>>]
    ELSE [e |-> e, ret |-> Err("already_closed"), tr |-> <<>>]

\* fn close: c = [app, err, reason] are the caller's arguments, a the
\* engine's answer
close(e, c, a) ==
    IF ~EngIsClosed(e)
    THEN LET g == EngClose(e, a)
             w == Ev("close", g.r, <<c.app, c.err, c.reason>>)
         IN CASE g.r = "ok" ->
                   LET dr == drain(g.e) IN
                   [e |-> dr.e, ret |-> Ok(0), tr |-> <<w>> \o dr.tr]
              [] g.r = "done" -> [e |-> g.e, ret |-> Ok(0), tr |-> <<w>>]
              [] OTHER -> [e |-> g.e, ret |-> Err("system_error"),
                           tr |-> <<w>>]
    ELSE [e |-> e, ret |-> Err("already_closed"), tr |-> <<>>]

(***************************************************************************)
(* Inputs of the host and of the environment.                              *)
(***************************************************************************)
NoRx == [s \in Streams |-> 0]
Payloads == {[rx |-> NoRx, dg |-> <<>>],
             [rx |-> [s \in Streams |-> IF s = 0 THEN 5 ELSE 0], dg |-> <<7>>],
             [rx |-> [s \in Streams |-> IF s = 0 THEN BufSize + 1 ELSE 2],
              dg |-> <<7, BufSize>>]}

\* the orders in which the engine's readable() may yield the streams; the
\* driver does not use the iterator while the connection is handshaking
Orders == {o \in [1..Cardinality(Streams) -> Streams] :
              \A i, j \in DOMAIN o : i # j => o[i] # o[j]}
AnyOrder == CHOOSE o \in Orders : TRUE
OrdersIn(ph) == IF ph = "handshake" THEN {AnyOrder} ELSE Orders

Rejected == [accept |-> FALSE, phase |-> "handshake", rx |-> NoRx,
             dg |-> <<>>, out |-> <<>>, tmo |-> <<>>, ord |-> AnyOrder]
InPkts == {Rejected} \cup
          UNION {[accept : {TRUE}, phase : {ph}, rx : {pl.rx}, dg : {pl.dg},
                  out : OutSeqs, tmo : TimerVals, ord : OrdersIn(ph)] :
                     ph \in Phases, pl \in Payloads}

TimeoutAnswers == [expire : {TRUE}, out : {<<>>}, tmo : {<<>>}] \cup
                  [expire : {FALSE}, out : OutSeqs, tmo : TimerVals]

CloseArgs == [app : BOOLEAN, err : {0}, reason : {"bye"}]

(***************************************************************************)
(* State: the connection's engine; the call that has just run on it, until *)
(* its result is handed back to the calling process (its arguments,        *)
(* whether the connection was closed before it, its result and its trace   *)
(* of engine calls and notifications); and whether a close call has        *)
(* returned ok so far.  The host makes one call at a time here; calls from *)
(* several threads are the subject of SpecThreads.                         *)
(***************************************************************************)
VARIABLES conn, last, closeOk

\* For calls from several threads (LockedConnection, lib.rs 395-406, and the
\* NIFs that lock it): each thread's place in its call, the holder of the
\* connection's mutex, and the host process's mailbox.
VARIABLES th, lock, mbox

\* The namespaced registries (the statics CONFIGS and BUFFERS of lib.rs,
\* SOCKETS of socket.rs): the three tables, their reader/writer locks, the
\* mutex of every entry, and each calling thread's place in its NIF.
VARIABLES configs, buffers, sockets, rwlock, mutex, rth

\* A UDP socket with its poller thread (Socket, LockedSocket and socket_open
\* of lib.rs; Socket and socket_open of socket.rs), and the threads calling
\* socket_send.
VARIABLES sk, snd

\* packet_parse_header: the call under way, with what the engine's header
\* parser answered and what the NIF returns
VARIABLES hp

svars == <<conn, last, closeOk>>
tvars == <<th, lock, mbox>>
rvars == <<configs, buffers, sockets, rwlock, mutex, rth>>
pvars == <<sk, snd>>
hvars == <<hp>>
xvars == <<rvars, pvars, hvars>>
vars == <<conn, last, closeOk, th, lock, mbox,
          configs, buffers, sockets, rwlock, mutex, rth, sk, snd, hp>>

Threads == {"t1", "t2"}
NoThread == "none"
IdleThread == [pc |-> "idle", n |-> 0, call |-> <<>>, todo |-> <<>>,
               ret |-> Ok(0)]

Namespaces == {"A", "B"}
Tables == {"cfg", "buf", "sock"}
\* a table holds for every key no entry (HashMap::get gives None) or one
Absent == <<>>
Some(x) == <<x>>
Val(e) == e[1]
\* an RwLock nobody holds
RwUnlocked == [w |-> NoThread, r |-> {}]
IdleCaller == [pc |-> "idle", op |-> "none", ns |-> "none", arg |-> <<>>,
               found |-> FALSE, ret |-> Ok(0), out |-> <<>>]

\* no socket is open: no poller thread runs yet
NoItem == [k |-> "none", len |-> 0, from |-> 0, id |-> 0]
NoSocket == [variant |-> "none", pc |-> "unopened", q |-> <<>>,
             ready |-> FALSE, mx |-> NoThread, opener |-> "none",
             notes |-> <<>>,
             got |-> NoItem, arrived |-> 0]
IdleSender == [pc |-> "idle", sent |-> "none", ret |-> Ok(0)]

InitSocket ==
    /\ sk = NoSocket
    /\ snd = [t \in Threads |-> IdleSender]

\* the statics before any NIF has run: empty tables
InitRegistry ==
    /\ configs = [ns \in Namespaces |-> Absent]
    /\ buffers = [ns \in Namespaces |-> Absent]
    /\ sockets = [ns \in Namespaces |-> Absent]
    /\ rwlock = [tb \in Tables |-> RwUnlocked]
    /\ mutex = [tb \in Tables |-> [ns \in Namespaces |-> NoThread]]
    /\ rth = [t \in Threads |-> IdleCaller]

NoHeader == [r |-> "none", scid |-> <<>>, dcid |-> <<>>, token |-> <<>>,
             version |-> 0, ty |-> "none", sup |-> FALSE]
IdleParse == [pc |-> "idle", ans |-> NoHeader, ret |-> Err("none")]

Call(op, in, r) ==
    [op |-> op, in |-> in, preClosed |-> EngIsClosed(conn),
     preCloseOk |-> closeOk, ret |-> r.ret, tr |-> r.tr]

Idle == [op |-> "idle", in |-> <<>>, preClosed |-> FALSE,
         preCloseOk |-> FALSE, ret |-> Ok(0), tr |-> <<>>]

Init ==
    /\ conn = EngInit
    /\ last = Idle
    /\ closeOk = FALSE
    /\ th = [t \in Threads |-> IdleThread]
    /\ lock = NoThread
    /\ mbox = <<>>
    /\ InitRegistry
    /\ InitSocket
    /\ hp = IdleParse

\* connection_on_packet
OnPacket ==
    /\ last = Idle
    /\ \E p \in InPkts :
        /\ p.rx # NoRx => conn.rx = NoRx
        /\ p.dg # <<>> => conn.dgq = <<>>
        /\ Len(conn.outq) + Len(p.out) <= MaxOut
        /\ LET r == on_packet(conn, p) IN
           /\ conn' = r.e
           /\ last' = Call("on_packet", <<>>, r)
           /\ UNCHANGED closeOk
           /\ UNCHANGED <<tvars, xvars>>

\* connection_stream_send
StreamSend ==
    /\ last = Idle
    /\ \E sid \in SendStreams, data \in Datas, script \in Scripts :
        /\ Len(conn.tx[sid]) + Len(data) <= MaxData
        /\ LET r == stream_send(conn, sid, data, script) IN
           /\ conn' = r.e
           /\ last' = Call("stream_send", [sid |-> sid, data |-> data], r)
           /\ UNCHANGED closeOk
           /\ UNCHANGED <<tvars, xvars>>

\* connection_dgram_send
DgramSend ==
    /\ last = Idle
    /\ \E data \in Datas, a \in {"ok", "done", "err"} :
        LET r == dgram_send(conn, data, a) IN
        /\ conn' = r.e
        /\ last' = Call("dgram_send", [data |-> data], r)
        /\ UNCHANGED closeOk
        /\ UNCHANGED <<tvars, xvars>>

\* connection_on_timeout
OnTimeout ==
    /\ last = Idle
    /\ \E o \in TimeoutAnswers :
        /\ Len(conn.outq) + Len(o.out) <= MaxOut
        /\ LET r == on_timeout(conn, o) IN
           /\ conn' = r.e
           /\ last' = Call("on_timeout", <<>>, r)
           /\ UNCHANGED closeOk
           /\ UNCHANGED <<tvars, xvars>>

\* connection_close
Close ==
    /\ last = Idle
    /\ \E c \in CloseArgs, a \in {"ok", "err"} :
        LET r == close(conn, c, a) IN
        /\ conn' = r.e
        /\ last' = Call("close", c, r)
        /\ closeOk' = (closeOk \/ r.ret.k = "ok")
        /\ UNCHANGED <<tvars, xvars>>

\* connection_is_closed
IsClosed ==
    /\ last = Idle
    /\ last' = Call("is_closed", <<>>,
                    [ret |-> [k |-> "bool", v |-> is_closed(conn)],
                     tr |-> <<>>])
    /\ UNCHANGED <<conn, closeOk>>
    /\ UNCHANGED <<tvars, xvars>>

\* the NIF returns: the result reaches the calling process, which may call
\* again
Return ==
    /\ last # Idle
    /\ last' = Idle
    /\ UNCHANGED <<conn, closeOk>>
    /\ UNCHANGED <<tvars, xvars>>

Next ==
    \/ OnPacket \/ StreamSend \/ DgramSend \/ OnTimeout \/ Close \/ IsClosed
    \/ Return

Spec == Init /\ [][Next]_vars

(***************************************************************************)
(* The NIFs called from several threads.  Each NIF first takes the         *)
(* connection's mutex (`conn.conn.lock().unwrap()`), runs the Connection   *)
(* method, sending its notifications one by one, and drops the guard when  *)
(* it returns.                                                             *)
(***************************************************************************)
EstablishedPkt ==
    [accept |-> TRUE, phase |-> "established",
     rx |-> [s \in Streams |-> IF s = 0 THEN 5 ELSE 0], dg |-> <<7>>,
     out |-> <<PktLong, PktShort>>, tmo |-> <<>>, ord |-> AnyOrder]

ThreadCalls ==
    {[op |-> "on_packet", arg |-> EstablishedPkt],
     [op |-> "stream_send",
      arg |-> [sid |-> 0, data |-> <<1, 2>>,
               script |-> <<[r |-> "cap", n |-> 1]>>]],
     [op |-> "dgram_send", arg |-> [data |-> <<1>>, a |-> "ok"]],
     [op |-> "on_timeout",
      arg |-> [expire |-> FALSE, out |-> <<PktShort, PktLong>>,
               tmo |-> <<>>]],
     [op |-> "close",
      arg |-> [c |-> [app |-> TRUE, err |-> 0, reason |-> "bye"],
               a |-> "ok"]],
     [op |-> "is_closed", arg |-> <<>>]}

\* the Connection method a NIF runs under the lock
Perform(e, c) ==
    CASE c.op = "on_packet" -> on_packet(e, c.arg)
      [] c.op = "stream_send" ->
           stream_send(e, c.arg.sid, c.arg.data, c.arg.script)
      [] c.op = "dgram_send" -> dgram_send(e, c.arg.data, c.arg.a)
      [] c.op = "on_timeout" -> on_timeout(e, c.arg)
      [] c.op = "close" -> close(e, c.arg.c, c.arg.a)
      [] OTHER -> [e |-> e, ret |-> [k |-> "bool", v |-> is_closed(e)],
                   tr |-> <<>>]

\* a mutex that lets every caller in
MutexFree_broken(l) == TRUE

\* std::sync::Mutex::lock returns once no guard is alive
MutexFree(l) == l = NoThread

\* a thread enters a NIF
Invoke(t) ==
    /\ th[t].pc = "idle"
    /\ th[t].n < MaxCalls
    /\ \E c \in ThreadCalls :
           th' = [th EXCEPT ![t].pc = "lock", ![t].call = c]
    /\ UNCHANGED <<lock, mbox>>
    /\ UNCHANGED <<svars, xvars>>

\* `let mut conn = conn.conn.lock().unwrap();`
Acquire(t) ==
    /\ th[t].pc = "lock"
    /\ MutexFree(lock)
    /\ lock' = t
    /\ th' = [th EXCEPT ![t].pc = "body"]
    /\ UNCHANGED mbox
    /\ UNCHANGED <<svars, xvars>>

\* the Connection method: the closed test and the engine calls
Body(t) ==
    /\ th[t].pc = "body"
    /\ LET r == Perform(conn, th[t].call) IN
       /\ conn' = r.e
       /\ th' = [th EXCEPT ![t].pc = "emit", ![t].todo = Notes(r.tr),
                            ![t].ret = r.ret]
    /\ UNCHANGED <<lock, mbox, last, closeOk>>
    /\ UNCHANGED xvars

\* one `env.send(pid, ..)` of the method
Emit(t) ==
    /\ th[t].pc = "emit"
    /\ th[t].todo # <<>>
    /\ mbox' = Append(mbox, [t |-> t, n |-> th[t].n,
                             note |-> Head(th[t].todo).k])
    /\ th' = [th EXCEPT ![t].todo = Tail(th[t].todo)]
    /\ UNCHANGED lock
    /\ UNCHANGED <<svars, xvars>>

\* the NIF returns its result and the guard is dropped
Release(t) ==
    /\ th[t].pc = "emit"
    /\ th[t].todo = <<>>
    /\ th' = [th EXCEPT ![t] = [IdleThread EXCEPT !.n = th[t].n + 1]]
    /\ lock' = NoThread
    /\ UNCHANGED mbox
    /\ UNCHANGED <<svars, xvars>>

NextThreads ==
    \E t \in Threads :
        Invoke(t) \/ Acquire(t) \/ Body(t) \/ Emit(t) \/ Release(t)

SpecThreads == Init /\ [][NextThreads]_vars

(***************************************************************************)
(* Properties.  They read the call that has just run (last) and the        *)
(* engine after it (conn).                                                 *)
(***************************************************************************)
DriverOps == {"on_packet", "stream_send", "dgram_send", "on_timeout", "close"}

\* the positions of tr whose entry has kind k
At(tr, k) == {i \in 1..Len(tr) : tr[i].k = k}

\* C1: a call of on_packet, stream_send, dgram_send, on_timeout or close made
\* while is_closed() is true returns already_closed, sends no notification
\* and makes no engine call at all (its trace is empty, the engine is as it
\* was).
C1_ClosedRejects ==
    (last.op \in DriverOps /\ last.preClosed) =>
        /\ last.ret = Err("already_closed")
        /\ Notes(last.tr) = <<>>
        /\ last.tr = <<>>
        /\ conn.closed

C1_Witness ==
    /\ last.op = "on_timeout"
    /\ last.preClosed
    /\ last.ret.k = "already_closed"

\* C2 as claimed: once a close call has returned ok, every later driver call
\* returns already_closed and sends no notification.
C2_AfterCloseOk ==
    (last.op \in DriverOps /\ last.preCloseOk) =>
        /\ last.ret = Err("already_closed")
        /\ Notes(last.tr) = <<>>

\* C2 amended: once a close call has returned ok, a later driver call returns
\* already_closed without notification exactly when is_closed() is true at
\* the call; while the engine is only closing the call still reaches the
\* engine, and a further close is answered Done by it and returns ok without
\* running drain and without notification.
C2_AfterCloseOkAmended ==
    (last.op \in DriverOps /\ last.preCloseOk) =>
        IF last.preClosed
        THEN last.ret = Err("already_closed") /\ last.tr = <<>>
        ELSE /\ last.ret.k # "already_closed"
             /\ last.tr # <<>>
             /\ last.op = "close" =>
                    /\ last.ret = Ok(0)
                    /\ last.tr = <<Ev("close", "done", <<last.in.app,
                                    last.in.err, last.in.reason>>)>>

C2_Witness ==
    /\ last.op = "close"
    /\ last.preCloseOk
    /\ ~last.preClosed
    /\ last.ret.k = "ok"

\* The place of a trace entry in on_packet's program order.
Rank(ev) ==
    CASE ev.k = "recv" -> 0
      [] ev.k \in {"stream_recv", "__stream_recv__"} -> 1
      [] ev.k \in {"dgram_recv", "__dgram_recv__"} -> 2
      [] ev.k \in {"drain", "send", "__drain__", "close"} -> 3
      [] ev.k = "timeout" -> 4
      [] OTHER -> 5

\* C4: in an on_packet call the engine accepted, all stream_recv
\* notifications come before all dgram_recv notifications, these before all
\* drain notifications, and the engine's timeout is read once, after the
\* last step of drain.
C4_OnPacketOrder ==
    (last.op = "on_packet" /\ last.ret.k = "ok") =>
        /\ \A i, j \in 1..Len(last.tr) :
               i < j => Rank(last.tr[i]) <= Rank(last.tr[j])
        /\ At(last.tr, "timeout") = {Len(last.tr)}
        /\ Cardinality(At(last.tr, "drain")) = 1

C4_Witness ==
    /\ last.op = "on_packet"
    /\ last.ret.k = "ok"
    /\ At(last.tr, "__stream_recv__") # {}
    /\ At(last.tr, "__dgram_recv__") # {}
    /\ Cardinality(At(last.tr, "__drain__")) >= 2

\* C5 as claimed: on an open connection and a stream still open for
\* writing, with an engine that has room for every write, sending b1 \o b2
\* in one stream_send call and sending b1 then b2 in two calls all return ok
\* and leave the engine with the same bytes for the stream.
C5_ChunkingEquivalent ==
    \A s \in SendStreams, b1 \in Datas, b2 \in Datas :
        (~EngIsClosed(conn) /\ ~conn.fin[s]) =>
            LET one == stream_send(conn, s, b1 \o b2, <<>>)
                first == stream_send(conn, s, b1, <<>>)
                second == stream_send(first.e, s, b2, <<>>)
            IN /\ one.ret.k = "ok"
               /\ first.ret.k = "ok"
               /\ second.ret.k = "ok"
               /\ second.e.tx[s] = one.e.tx[s]

\* a driver's own engine call that was refused
Refused(ev) ==
    \/ ev.k \in {"recv", "dgram_send"} /\ ev.r # "ok"
    \/ ev.k \in {"stream_send", "close"} /\ ev.r \notin {"ok", "done"}

\* C6: when an engine send() inside drain fails hard, the next thing drain
\* does is ask the engine to close with (false, 0x1, "fail"), and that drain
\* pulls nothing more; the call is not failed for it: a call returns
\* system_error only when its own engine call (recv, a stream write,
\* dgram_send, close) was refused, and that refusal is the last entry of its
\* trace.
C6_DrainFailureAbsorbed ==
    (last.op \in DriverOps) =>
        /\ \A i \in At(last.tr, "send") :
               last.tr[i].r = "err" =>
                   /\ i < Len(last.tr)
                   /\ last.tr[i + 1].k = "close"
                   /\ last.tr[i + 1].v = <<FALSE, 1, "fail">>
                   /\ i + 2 <= Len(last.tr) =>
                          last.tr[i + 2].k \notin {"send", "__drain__"}
        /\ last.ret.k = "system_error" =>
               /\ last.tr # <<>>
               /\ Refused(last.tr[Len(last.tr)])
        /\ (\E i \in At(last.tr, "send") : last.tr[i].r = "err") =>
               \/ last.ret.k = "ok"
               \/ last.op = "stream_send" /\ Refused(last.tr[Len(last.tr)])

C6_Witness ==
    /\ last.op = "on_packet"
    /\ last.ret.k = "ok"
    /\ At(last.tr, "__drain__") # {}
    /\ \E i \in At(last.tr, "send") : last.tr[i].r = "err"

\* C7: a stream_send call on a connection that is not closed starts with an
\* engine write; every write the engine accepts is followed at once by a run
\* of drain, and drain runs at no other time; the loop goes on while bytes
\* remain and ends with ok when the cursor has reached the end of the data or
\* the engine answers Done; any other answer is the last thing the call
\* does, and it returns system_error.
C7_StreamSendLoop ==
    (last.op = "stream_send" /\ ~last.preClosed) =>
        LET tr == last.tr
            W == At(tr, "stream_send")
            size == Len(last.in.data)
            lastW == CHOOSE i \in W : \A j \in W : j <= i
        IN /\ 1 \in W
           /\ \A i \in W :
                  CASE tr[i].r = "ok" ->
                         /\ i < Len(tr)
                         /\ tr[i + 1].k = "drain"
                         /\ i # lastW => tr[i].v[2] + tr[i].v[3] < size
                         /\ i = lastW =>
                                /\ tr[i].v[2] + tr[i].v[3] >= size
                                /\ last.ret.k = "ok"
                    [] tr[i].r = "done" ->
                         /\ i = lastW
                         /\ last.ret.k = "ok"
                         /\ i + 1 = Len(tr)
                         /\ tr[i + 1].k = "timeout"
                    [] OTHER ->
                         /\ i = Len(tr)
                         /\ last.ret = Err("system_error")
           /\ Cardinality(At(tr, "drain"))
                  = Cardinality({i \in W : tr[i].r = "ok"})

C7_Witness ==
    /\ last.op = "stream_send"
    /\ last.ret.k = "ok"
    /\ \E i \in At(last.tr, "stream_send") :
           last.tr[i].r = "ok" /\ last.tr[i].v[3] = 1
    /\ \E i \in At(last.tr, "stream_send") : last.tr[i].r = "done"

\* C8 as claimed: close on a connection that is not closed asks the engine to
\* close; Done from the engine gives ok, another refusal system_error, and
\* whenever close returns ok drain has run exactly once in the call.
C8_CloseDrainsOnSuccess ==
    (last.op = "close" /\ ~last.preClosed) =>
        /\ last.tr # <<>>
        /\ last.tr[1].k = "close"
        /\ last.tr[1].r = "done" => last.ret = Ok(0)
        /\ last.tr[1].r = "err" => last.ret = Err("system_error")
        /\ last.ret.k = "ok" => Cardinality(At(last.tr, "drain")) = 1

\* C8 amended: close on a connection that is not closed asks the engine to
\* close with the caller's arguments; when the engine accepts, close runs
\* drain exactly once and returns ok; when the engine answers Done, close
\* returns ok without running drain; another refusal gives system_error
\* without running drain.
C8_CloseDrainsWhenAccepted ==
    (last.op = "close" /\ ~last.preClosed) =>
        /\ last.tr # <<>>
        /\ last.tr[1] = Ev("close", last.tr[1].r,
                           <<last.in.app, last.in.err, last.in.reason>>)
        /\ CASE last.tr[1].r = "ok" ->
                  /\ last.ret = Ok(0)
                  /\ At(last.tr, "drain") = {2}
             [] last.tr[1].r = "done" ->
                  /\ last.ret = Ok(0)
                  /\ Len(last.tr) = 1
             [] OTHER ->
                  /\ last.ret = Err("system_error")
                  /\ Len(last.tr) = 1

C8_Witness ==
    /\ last.op = "close"
    /\ ~last.preClosed
    /\ last.ret.k = "ok"
    /\ last.tr[1].r = "ok"
    /\ At(last.tr, "__drain__") # {}

\* C9: when on_packet, dgram_send or on_timeout returns ok, drain has run
\* once in the call; each packet the engine handed out was sent to the host
\* as one drain notification, right after it was pulled and before the next
\* pull; the pulling ended with the engine's Done or with a hard failure;
\* and unless it was a hard failure the engine has nothing pending when the
\* call returns.
C9_DrainUntilDone ==
    (last.op \in {"on_packet", "dgram_send", "on_timeout"}
        /\ last.ret.k = "ok") =>
        LET tr == last.tr
            S == At(tr, "send")
            D == At(tr, "__drain__")
        IN /\ Cardinality(At(tr, "drain")) = 1
           /\ \A i \in S : tr[i].r = "ok" =>
                  i + 1 \in D /\ tr[i + 1].v = tr[i].v
           /\ \A j \in D : j - 1 \in S /\ tr[j - 1].r = "ok"
           /\ \E i \in S : tr[i].r # "ok" /\ \A j \in S : j <= i
           /\ \A i \in S : tr[i].r # "ok" => \A j \in S : j <= i
           /\ (\A i \in S : tr[i].r # "err") => conn.outq = <<>>

C9_Witness ==
    /\ last.op = "on_timeout"
    /\ last.ret.k = "ok"
    /\ Cardinality(At(last.tr, "__drain__")) = 2
    /\ \A i \in At(last.tr, "send") : last.tr[i].r # "err"
    /\ conn.outq = <<>>

\* C10: a call of on_packet, stream_send, dgram_send or on_timeout that
\* returns ok returns the timeout the engine reports after the call's last
\* drain step, in whole milliseconds, or 60000 when the engine reports none;
\* reading it is the last thing the call does.
C10_NextTimeout ==
    (last.op \in {"on_packet", "stream_send", "dgram_send", "on_timeout"}
        /\ last.ret.k = "ok") =>
        /\ last.ret.v = IF conn.timer = <<>> THEN 60000
                        ELSE conn.timer[1] \div 1000
        /\ At(last.tr, "timeout") = {Len(last.tr)}
        /\ last.tr[Len(last.tr)].v = conn.timer

C10_Witness ==
    /\ last.op = "dgram_send"
    /\ last.ret = Ok(25)
    /\ conn.timer = <<25999>>

\* C3: calls on one connection from different threads do not interleave: a
\* thread is between its closed test and its return only while it holds the
\* connection's mutex, so at most one thread is, and the notifications of
\* one call lie in the mailbox as one block, with no notification of another
\* call between two of them (a notification that has a later one of the same
\* call is directly followed by one of the same call).
C3_CallsSerialized ==
    /\ \A t \in Threads : th[t].pc \in {"body", "emit"} => lock = t
    /\ \A i, k \in 1..Len(mbox) :
           (i < k /\ mbox[i].t = mbox[k].t /\ mbox[i].n = mbox[k].n)
               => (mbox[i + 1].t = mbox[i].t /\ mbox[i + 1].n = mbox[i].n)

\* t2 waits for the mutex while t1, the holder, is part-way through the
\* notifications of its call, after an earlier call of t2 sent several
C3_Witness ==
    /\ lock = "t1"
    /\ th["t1"].pc = "emit"
    /\ th["t1"].todo # <<>>
    /\ th["t2"].pc = "lock"
    /\ \E i, j \in 1..Len(mbox) :
           i < j /\ mbox[i].t = "t2" /\ mbox[i + 1].t = "t2"
               /\ mbox[j].t = "t1" /\ mbox[j].n = th["t1"].n

\* C11: when the engine refuses the packet of on_packet or the datagram of
\* dgram_send on a connection that is not closed, the call returns
\* system_error and that engine call is all it did: no stream or datagram
\* read, no drain, no notification; when the engine accepts, the call does
\* not return system_error.
C11_RejectedInput ==
    (last.op \in {"on_packet", "dgram_send"} /\ ~last.preClosed) =>
        /\ last.tr # <<>>
        /\ last.tr[1].k = (IF last.op = "on_packet" THEN "recv"
                           ELSE "dgram_send")
        /\ IF last.tr[1].r # "ok"
           THEN /\ last.ret = Err("system_error")
                /\ Len(last.tr) = 1
                /\ Notes(last.tr) = <<>>
           ELSE last.ret.k = "ok"

\* a refused packet while the engine holds outbound packets a drain would
\* have sent
C11_Witness ==
    /\ last.op = "on_packet"
    /\ ~last.preClosed
    /\ last.ret = Err("system_error")
    /\ conn.outq # <<>>

(***************************************************************************)
(* The namespaced registries.  A NIF that uses a table first takes the     *)
(* table's reader/writer lock, looks the namespace up, locks the entry's   *)
(* mutex, does its work and drops both guards when it returns.  A thread   *)
(* can be kept waiting at the two lock acquisitions only; what lies        *)
(* between them runs without interruption by the thread's own doing, and   *)
(* other threads run meanwhile.                                            *)
(***************************************************************************)
\* quiche::Config::new(PROTOCOL_VERSION): idle timeout and congestion control
\* algorithm stand for the fields the setters write
DefaultConfig == [idle |-> 0, cc |-> 1]

\* Mutex::new([0; 1350]): the bytes written into the buffer so far; the
\* bytes behind them are still 0
ZeroBuffer == <<>>

\* config_set_max_idle_timeout(5) and config_set_cc_algorithm_name of a name
\* the engine does not know (9)
Setters == {[kind |-> "idle", v |-> <<5>>], [kind |-> "cc", v |-> <<9>>]}

\* the congestion control algorithms the engine knows by name
CcKnown == {1, 2}

\* the closure a setter NIF hands to set_config, run on the locked entry
ApplySetter(c, st) ==
    IF st.kind = "idle"
    THEN [c |-> [c EXCEPT !.idle = st.v[1]], r |-> "ok"]
    ELSE IF st.v[1] \in CcKnown
         THEN [c |-> [c EXCEPT !.cc = st.v[1]], r |-> "ok"]
         ELSE [c |-> c, r |-> "err"]

\* config_init inserting the defaults over an existing entry
config_init_reset(tbl, ns, a) ==
    IF a = "ok"
    THEN [tbl |-> [tbl EXCEPT ![ns] = Some(DefaultConfig)], ret |-> Ok(0)]
    ELSE [tbl |-> tbl, ret |-> Err("system_error")]

\* fn config_init, under CONFIGS.write(); a is the answer of Config::new
config_init(tbl, ns, a) ==
    IF tbl[ns] # Absent
    THEN [tbl |-> tbl, ret |-> Ok(0)]
    ELSE IF a = "ok"
         THEN [tbl |-> [tbl EXCEPT ![ns] = Some(DefaultConfig)], ret |-> Ok(0)]
         ELSE [tbl |-> tbl, ret |-> Err("system_error")]

\* a buffer_init that inserts nothing
buffer_init_skip(tbl, ns) == tbl

\* fn buffer_init, under BUFFERS.write()
buffer_init(tbl, ns) ==
    IF tbl[ns] = Absent THEN [tbl EXCEPT ![ns] = Some(ZeroBuffer)] ELSE tbl

\* a lookup that inserts an entry when it finds none
lookup_miss_creates(tbl, ns) ==
    [tbl |-> [tbl EXCEPT ![ns] = Some(DefaultConfig)], ret |-> Ok(0)]

\* the else branch of `if let Some(..) = table.get_mut(module)`
lookup_miss(tbl, ns) == [tbl |-> tbl, ret |-> Err("not_found")]

\* fn set_config on the entry found
set_config(c, st) ==
    LET a == ApplySetter(c, st) IN
    [c |-> a.c, ret |-> IF a.r = "ok" THEN Ok(0) ELSE Err("system_error")]

\* quiche::negotiate_version(scid, dcid, buf): the bytes it formats
NegotiateVersion(v) == <<128, v[1], v[2]>>

\* quiche::retry(scid, odcid, dcid, token, version, buf): the bytes it formats
Retry(v) == <<240, v[5], v[1], v[3], v[4], v[2]>>

Builds == {[kind |-> "vn", v |-> <<11, 12>>],
           [kind |-> "retry", v |-> <<21, 22, 23, 24, 25>>]}

Formatted(arg) ==
    IF arg.kind = "vn" THEN NegotiateVersion(arg.v) ELSE Retry(arg.v)

\* the engine formats into the front of the buffer
WriteBuf(buf, bytes) == bytes \o Drop(buf, Min(Len(bytes), Len(buf)))

\* copying the whole written part of the buffer
CopyOut_whole(buf, len) == buf

\* `resp.as_mut_slice().copy_from_slice(&buf[..len])`
CopyOut(buf, len) == [i \in 1..len |-> IF i <= Len(buf) THEN buf[i] ELSE 0]

NoArg == [kind |-> "none", v |-> <<>>]
RegCalls ==
    [op : {"init", "accept", "socket_open", "socket_send", "socket_close"},
     ns : Namespaces, arg : {NoArg}]
    \cup [op : {"set_config"}, ns : Namespaces, arg : Setters]
    \cup [op : {"build"}, ns : Namespaces, arg : Builds]

\* the table a NIF works on
TableOf(op) ==
    CASE op \in {"init", "set_config", "accept"} -> "cfg"
      [] op = "build" -> "buf"
      [] OTHER -> "sock"

\* how it takes the table's lock: SOCKETS.read() in socket_send, .write()
\* everywhere else
LockMode(op) == IF op = "socket_send" THEN "read" ELSE "write"

TableNow(tb) ==
    CASE tb = "cfg" -> configs [] tb = "buf" -> buffers [] OTHER -> sockets

\* RwLock::write returns when there is no writer and no reader, RwLock::read
\* when there is no writer
RwFree(l, mode) ==
    IF mode = "read" THEN l.w = NoThread
    ELSE l.w = NoThread /\ l.r = {}

RwTake(l, t, mode) ==
    IF mode = "read" THEN [l EXCEPT !.r = l.r \cup {t}]
    ELSE [l EXCEPT !.w = t]

RwDrop(l, t) == [w |-> IF l.w = t THEN NoThread ELSE l.w, r |-> l.r \ {t}]

\* the thread may go on at its table's lock
CanLock(t) ==
    RwFree(rwlock[TableOf(rth[t].op)], LockMode(rth[t].op))

\* a thread enters a registry NIF
RegInvoke(t) ==
    /\ rth[t].pc = "idle"
    /\ \E c \in RegCalls :
           rth' = [rth EXCEPT ![t] =
                      [IdleCaller EXCEPT
                          !.pc = IF c.op = "init" THEN "buffer_init"
                                 ELSE "reg",
                          !.op = c.op, !.ns = c.ns, !.arg = c.arg]]
    /\ UNCHANGED <<configs, buffers, sockets, rwlock, mutex>>
    /\ UNCHANGED <<svars, tvars, pvars, hvars>>

\* quic_init: buffer_init(&module)
RegBufferInit(t) ==
    /\ rth[t].pc = "buffer_init"
    /\ RwFree(rwlock["buf"], "write")
    /\ buffers' = buffer_init(buffers, rth[t].ns)
    /\ rth' = [rth EXCEPT ![t].pc = "config_init"]
    /\ UNCHANGED <<configs, sockets, rwlock, mutex>>
    /\ UNCHANGED <<svars, tvars, pvars, hvars>>

\* quic_init: config_init(&module)
RegConfigInit(t) ==
    /\ rth[t].pc = "config_init"
    /\ RwFree(rwlock["cfg"], "write")
    /\ \E a \in {"ok", "err"} :
           LET r == config_init(configs, rth[t].ns, a) IN
           /\ configs' = r.tbl
           /\ rth' = [rth EXCEPT ![t].pc = "done", ![t].ret = r.ret,
                                 ![t].found = (configs[rth[t].ns] # Absent)]
    /\ UNCHANGED <<buffers, sockets, rwlock, mutex>>
    /\ UNCHANGED <<svars, tvars, pvars, hvars>>

LookupOps == {"set_config", "accept", "build", "socket_send"}

\* `let mut table = TABLE.write();  if let Some(e) = table.get_mut(module)`
\* (socket_send: TABLE.read() and get): on a miss the NIF returns at once
RegLookup(t) ==
    /\ rth[t].pc = "reg"
    /\ rth[t].op \in LookupOps
    /\ CanLock(t)
    /\ LET tb == TableOf(rth[t].op)
           ns == rth[t].ns
       IN IF TableNow(tb)[ns] = Absent
          THEN LET m == lookup_miss(TableNow(tb), ns) IN
               /\ configs' = IF tb = "cfg" THEN m.tbl ELSE configs
               /\ buffers' = IF tb = "buf" THEN m.tbl ELSE buffers
               /\ sockets' = IF tb = "sock" THEN m.tbl ELSE sockets
               /\ rth' = [rth EXCEPT ![t].pc = "done", ![t].ret = m.ret]
               /\ UNCHANGED rwlock
          ELSE /\ rwlock' = [rwlock EXCEPT
                                ![tb] = RwTake(rwlock[tb], t,
                                               LockMode(rth[t].op))]
               /\ rth' = [rth EXCEPT ![t].pc = "entry", ![t].found = TRUE]
               /\ UNCHANGED <<configs, buffers, sockets>>
    /\ UNCHANGED mutex
    /\ UNCHANGED <<svars, tvars, pvars, hvars>>

\* set_config: `config.lock().unwrap()`, the setter, return
RegSetConfig(t) ==
    /\ rth[t].pc = "entry"
    /\ rth[t].op = "set_config"
    /\ MutexFree(mutex["cfg"][rth[t].ns])
    /\ LET r == set_config(Val(configs[rth[t].ns]), rth[t].arg) IN
       /\ configs' = [configs EXCEPT ![rth[t].ns] = Some(r.c)]
       /\ rth' = [rth EXCEPT ![t].pc = "done", ![t].ret = r.ret]
    /\ rwlock' = [rwlock EXCEPT !["cfg"] = RwDrop(rwlock["cfg"], t)]
    /\ UNCHANGED <<buffers, sockets, mutex>>
    /\ UNCHANGED <<svars, tvars, pvars, hvars>>

\* connection_accept: `config.lock().unwrap()`, quiche::accept, return
RegAccept(t) ==
    /\ rth[t].pc = "entry"
    /\ rth[t].op = "accept"
    /\ MutexFree(mutex["cfg"][rth[t].ns])
    /\ \E a \in {"ok", "err"} :
           rth' = [rth EXCEPT ![t].pc = "done",
                              ![t].ret = IF a = "ok" THEN Ok(0)
                                         ELSE Err("system_error")]
    /\ rwlock' = [rwlock EXCEPT !["cfg"] = RwDrop(rwlock["cfg"], t)]
    /\ UNCHANGED <<configs, buffers, sockets, mutex>>
    /\ UNCHANGED <<svars, tvars, pvars, hvars>>

\* a builder: `buffer.lock().unwrap()` and the engine formatting into the
\* buffer
RegFormat(t) ==
    /\ rth[t].pc = "entry"
    /\ rth[t].op = "build"
    /\ MutexFree(mutex["buf"][rth[t].ns])
    /\ mutex' = [mutex EXCEPT !["buf"][rth[t].ns] = t]
    /\ buffers' = [buffers EXCEPT
                      ![rth[t].ns] = Some(WriteBuf(Val(buffers[rth[t].ns]),
                                                   Formatted(rth[t].arg)))]
    /\ rth' = [rth EXCEPT ![t].pc = "copy"]
    /\ UNCHANGED <<configs, sockets, rwlock>>
    /\ UNCHANGED <<svars, tvars, pvars, hvars>>

\* a builder: the response copied out of the buffer, return
RegCopyOut(t) ==
    /\ rth[t].pc = "copy"
    /\ rth' = [rth EXCEPT
                  ![t].pc = "done", ![t].ret = Ok(0),
                  ![t].out = CopyOut(Val(buffers[rth[t].ns]),
                                     Len(Formatted(rth[t].arg)))]
    /\ mutex' = [mutex EXCEPT !["buf"][rth[t].ns] = NoThread]
    /\ rwlock' = [rwlock EXCEPT !["buf"] = RwDrop(rwlock["buf"], t)]
    /\ UNCHANGED <<configs, buffers, sockets>>
    /\ UNCHANGED <<svars, tvars, pvars, hvars>>

\* socket.rs socket_send: `socket.lock()`, send_to, return
RegSocketSend(t) ==
    /\ rth[t].pc = "entry"
    /\ rth[t].op = "socket_send"
    /\ MutexFree(mutex["sock"][rth[t].ns])
    /\ \E a \in {"ok", "err"} :
           rth' = [rth EXCEPT ![t].pc = "done",
                              ![t].ret = IF a = "ok" THEN Ok(0)
                                         ELSE Err("system_error")]
    /\ rwlock' = [rwlock EXCEPT !["sock"] = RwDrop(rwlock["sock"], t)]
    /\ UNCHANGED <<configs, buffers, sockets, mutex>>
    /\ UNCHANGED <<svars, tvars, pvars, hvars>>

\* socket.rs socket_open: the sender handle entered under SOCKETS.write()
RegSocketOpen(t) ==
    /\ rth[t].pc = "reg"
    /\ rth[t].op = "socket_open"
    /\ CanLock(t)
    /\ sockets' = IF sockets[rth[t].ns] = Absent
                  THEN [sockets EXCEPT ![rth[t].ns] = Some("udp")]
                  ELSE sockets
    /\ rth' = [rth EXCEPT ![t].pc = "done", ![t].ret = Ok(0)]
    /\ UNCHANGED <<configs, buffers, rwlock, mutex>>
    /\ UNCHANGED <<svars, tvars, pvars, hvars>>

\* socket.rs socket_close
RegSocketClose(t) ==
    /\ rth[t].pc = "reg"
    /\ rth[t].op = "socket_close"
    /\ CanLock(t)
    /\ sockets' = [sockets EXCEPT ![rth[t].ns] = Absent]
    /\ rth' = [rth EXCEPT ![t].pc = "done", ![t].ret = Ok(0)]
    /\ UNCHANGED <<configs, buffers, rwlock, mutex>>
    /\ UNCHANGED <<svars, tvars, pvars, hvars>>

\* the NIF's result is handed to the caller
RegReturn(t) ==
    /\ rth[t].pc = "done"
    /\ rth' = [rth EXCEPT ![t] = IdleCaller]
    /\ UNCHANGED <<configs, buffers, sockets, rwlock, mutex>>
    /\ UNCHANGED <<svars, tvars, pvars, hvars>>

NextRegistry ==
    \E t \in Threads :
        \/ RegInvoke(t) \/ RegBufferInit(t) \/ RegConfigInit(t)
        \/ RegLookup(t) \/ RegSetConfig(t) \/ RegAccept(t)
        \/ RegFormat(t) \/ RegCopyOut(t) \/ RegSocketSend(t)
        \/ RegSocketOpen(t) \/ RegSocketClose(t) \/ RegReturn(t)

SpecRegistry == Init /\ [][NextRegistry]_vars

\* C12: quic_init on a namespace that has a configuration returns ok and
\* leaves the configuration as the setters made it, and its buffer_init
\* leaves an existing scratch buffer as it is; on a namespace without them
\* it inserts a zeroed buffer and, when the engine can make a configuration,
\* the default configuration; no step of it touches another table.
C12_InitIdempotent ==
    [][\A t \in Threads :
          (rth[t].op = "init" /\ rth'[t].pc # rth[t].pc) =>
              LET ns == rth[t].ns IN
              /\ rth[t].pc = "buffer_init" =>
                     /\ buffers' = IF buffers[ns] # Absent THEN buffers
                                   ELSE [buffers EXCEPT
                                            ![ns] = Some(ZeroBuffer)]
                     /\ configs' = configs
              /\ rth[t].pc = "config_init" =>
                     /\ buffers' = buffers
                     /\ IF configs[ns] # Absent
                        THEN configs' = configs /\ rth'[t].ret = Ok(0)
                        ELSE \/ /\ rth'[t].ret = Ok(0)
                                /\ configs' = [configs EXCEPT
                                                  ![ns] = Some(DefaultConfig)]
                             \/ /\ rth'[t].ret = Err("system_error")
                                /\ configs' = configs
              /\ sockets' = sockets
      ]_vars

\* a second quic_init has returned ok on a namespace whose configuration a
\* setter had changed and whose buffer a builder had used
C12_Witness ==
    \E t \in Threads :
        /\ rth[t].op = "init"
        /\ rth[t].pc = "done"
        /\ rth[t].found
        /\ rth[t].ret = Ok(0)
        /\ \A u \in Threads \ {t} : rth[u].pc = "idle"
        /\ configs[rth[t].ns] = Some([DefaultConfig EXCEPT !.idle = 5])
        /\ buffers[rth[t].ns] \notin {Absent, Some(ZeroBuffer)}

\* the namespaces a table has an entry for
Registered(tbl) == {ns \in Namespaces : tbl[ns] # Absent}

\* C13: a setter, connection_accept, a builder or the socket.rs socket_send
\* called for a namespace its table has no entry for returns not_found at
\* the lookup, with all three tables, their locks and the entry mutexes left
\* as they were; called for a registered namespace it goes on and does not
\* return not_found; and no step of such a call adds or removes an entry of
\* any table.
C13_LookupNeverCreates ==
    [][\A t \in Threads :
          (rth[t].op \in LookupOps /\ rth'[t].pc # rth[t].pc) =>
              LET ns == rth[t].ns
                  tbl == TableNow(TableOf(rth[t].op))
              IN /\ Registered(configs') = Registered(configs)
                 /\ Registered(buffers') = Registered(buffers)
                 /\ Registered(sockets') = Registered(sockets)
                 /\ (rth[t].pc = "reg" /\ tbl[ns] = Absent) =>
                        /\ rth'[t].pc = "done"
                        /\ rth'[t].ret = Err("not_found")
                        /\ UNCHANGED <<configs, buffers, sockets, rwlock,
                                       mutex>>
                 /\ (rth[t].pc = "reg" /\ tbl[ns] # Absent) =>
                        rth'[t].pc = "entry"
                 /\ (rth[t].pc # "reg" /\ rth'[t].pc = "done") =>
                        rth'[t].ret.k # "not_found"
      ]_vars

\* connection_accept has returned not_found for a namespace that is still
\* unregistered, while the other namespace is initialised
C13_Witness ==
    \E t \in Threads :
        /\ rth[t].op = "accept"
        /\ rth[t].pc = "done"
        /\ rth[t].ret = Err("not_found")
        /\ configs[rth[t].ns] = Absent
        /\ Registered(configs) # {}
        /\ Registered(buffers) # {}

\* C14 as claimed: a setter running on one namespace holds the lock of the
\* configuration table in shared mode only, so that a thread about to read
\* or configure another namespace can take the table's lock while the
\* setter runs.
C14_SetterSharesRegistry ==
    \A t, u \in Threads :
        (/\ t # u
         /\ rth[t].op = "set_config" /\ rth[t].pc = "entry"
         /\ rth[u].op \in {"set_config", "accept"} /\ rth[u].pc = "reg"
         /\ rth[u].ns # rth[t].ns)
            => /\ rwlock["cfg"].w = NoThread
               /\ t \in rwlock["cfg"].r
               /\ CanLock(u)

(***************************************************************************)
(* The UDP socket and its poller thread, in the two variants of the        *)
(* source: "lib" is Socket / LockedSocket / socket_open / socket_send of   *)
(* lib.rs, where the poller and the senders share one socket behind a      *)
(* mutex; "sockrs" is socket.rs, where the poller owns a clone of the      *)
(* socket and the senders find theirs in the SOCKETS table under the       *)
(* namespace "A".  mio reports readiness edge-triggered: an arrival raises *)
(* the event, Poll::poll returning it clears it, and what stays queued     *)
(* raises none.                                                            *)
(***************************************************************************)
Poller == "poller"
SockNs == "A"
Peers == {7}
DgramLens == {MinHeader - 1, MinHeader, MaxDatagram, MaxDatagram + 1}

\* what can arrive: a datagram of some length from some peer, or an error
\* the next recv_from will report
Arrivals ==
    [k : {"dgram"}, len : DgramLens, from : Peers, id : {0}]
    \cup {[k |-> "err", len |-> 0, from |-> 0, id |-> 0]}

WouldBlock == [k |-> "wouldblock", len |-> 0, from |-> 0, id |-> 0]

\* whether recv_from returns: lib.rs binds the socket with mio, which makes
\* it non-blocking; socket.rs binds a std socket and wraps its clone with
\* UdpSocket::from_std, which leaves it blocking, so recv_from with nothing
\* queued waits for the next arrival
RecvReturns(variant, q) == variant = "lib" \/ q # <<>>

\* UdpSocket::recv_from when it returns
RecvFrom(q) ==
    IF q = <<>> THEN [r |-> WouldBlock, q |-> q]
    ELSE [r |-> Head(q), q |-> Tail(q)]

\* the {__packet__, peer, bytes} message
PacketNote(r) ==
    [k |-> "__packet__", from |-> r.from, len |-> r.len, id |-> r.id]

SocketErrorNote ==
    [k |-> "socket_error", from |-> 0, len |-> 0, id |-> 0]

\* lib.rs Socket::poll, the body of the loop over the events for what
\* recv_from gave: the notifications it sends
poll_lib(r) ==
    IF r.k # "dgram" THEN <<>>
    ELSE IF r.len > MaxDatagram THEN <<>>
    ELSE <<PacketNote(r)>>

\* socket.rs Socket::poll, likewise
poll_sockrs(r) ==
    IF r.k # "dgram"
    THEN IF r.k # "wouldblock" THEN <<SocketErrorNote>> ELSE <<>>
    ELSE IF r.len < MinHeader THEN <<>>
    ELSE IF r.len > MaxDatagram THEN <<>>
    ELSE <<PacketNote(r)>>

\* a poller thread that ends when recv_from fails
AfterPass_stop(variant, r) ==
    IF r.k # "dgram" THEN "stopped"
    ELSE IF variant = "lib" THEN "sleep" ELSE "wait"

\* where the poller thread is after its pass over the events: lib.rs
\* leaves LockedSocket::poll and sleeps, socket.rs calls poll again
AfterPass(variant, r) == IF variant = "lib" THEN "sleep" ELSE "wait"

\* lib.rs socket_send: the result of Socket::send is dropped
socket_send_lib(a) == Ok(0)

\* socket.rs socket_send on the entry found
socket_send_sockrs(a) == IF a = "ok" THEN Ok(0) ELSE Err("system_error")

\* socket_open: the socket is bound and the poller thread started.  lib.rs
\* returns the socket; socket.rs goes on to enter the sender's handle in
\* SOCKETS
SockOpen ==
    /\ sk.pc = "unopened"
    /\ \E v \in {"lib", "sockrs"} :
        sk' = [sk EXCEPT !.variant = v,
                         !.pc = IF v = "lib" THEN "lock" ELSE "wait",
                         !.opener = IF v = "lib" THEN "done" ELSE "insert"]
    /\ UNCHANGED snd
    /\ UNCHANGED <<svars, tvars, rvars, hvars>>

\* socket.rs socket_open: `SOCKETS.write()`, the handle inserted unless the
\* key has one, return
SockInsert ==
    /\ sk.opener = "insert"
    /\ RwFree(rwlock["sock"], "write")
    /\ sk' = [sk EXCEPT !.opener = "done"]
    /\ sockets' = IF sockets[SockNs] = Absent
                  THEN [sockets EXCEPT ![SockNs] = Some("udp")]
                  ELSE sockets
    /\ UNCHANGED <<configs, buffers, rwlock, mutex, rth, snd>>
    /\ UNCHANGED <<svars, tvars, hvars>>

\* the network delivers a datagram or an error to the socket
Arrive ==
    /\ sk.pc # "unopened"
    /\ sk.arrived < MaxDgrams
    /\ \E d \in Arrivals :
           sk' = [sk EXCEPT !.q = Append(sk.q,
                                         [d EXCEPT !.id = sk.arrived + 1]),
                            !.ready = TRUE,
                            !.arrived = sk.arrived + 1]
    /\ UNCHANGED snd
    /\ UNCHANGED <<svars, tvars, rvars, hvars>>

\* Poll::poll may report the socket readable for a datagram that is gone
\* when recv_from is called (taken by another reader of the socket, or
\* discarded by the kernel); the recv_from that follows then finds nothing:
\* WouldBlock in lib.rs, a wait in socket.rs
Spurious ==
    /\ sk.pc # "unopened"
    /\ ~sk.ready
    /\ sk' = [sk EXCEPT !.ready = TRUE]
    /\ UNCHANGED snd
    /\ UNCHANGED <<svars, tvars, rvars, hvars>>

\* lib.rs LockedSocket::poll: `self.sock.lock().unwrap()`
PollLock ==
    /\ sk.pc = "lock"
    /\ MutexFree(sk.mx)
    /\ sk' = [sk EXCEPT !.mx = Poller, !.pc = "wait"]
    /\ UNCHANGED snd
    /\ UNCHANGED <<svars, tvars, rvars, hvars>>

\* Poll::poll returns with the readiness event
PollWake ==
    /\ sk.pc = "wait"
    /\ sk.ready
    /\ sk' = [sk EXCEPT !.ready = FALSE, !.pc = "events", !.got = NoItem]
    /\ UNCHANGED snd
    /\ UNCHANGED <<svars, tvars, rvars, hvars>>

\* the loop over the events: one recv_from for the one event of the socket,
\* then the end of Socket::poll (lib.rs: the guard of the mutex is dropped).
\* An event raised meanwhile is reported by the next Poll::poll only if the
\* socket is still readable then: when this recv_from has taken the last
\* item queued, the event is gone
PollRecv ==
    /\ sk.pc = "events"
    /\ RecvReturns(sk.variant, sk.q)
    /\ LET rc == RecvFrom(sk.q)
           ns == IF sk.variant = "lib" THEN poll_lib(rc.r)
                 ELSE poll_sockrs(rc.r)
       IN sk' = [sk EXCEPT !.q = rc.q, !.got = rc.r,
                           !.ready = sk.ready /\ rc.q # <<>>,
                           !.notes = sk.notes \o ns,
                           !.mx = NoThread,
                           !.pc = AfterPass(sk.variant, rc.r)]
    /\ UNCHANGED snd
    /\ UNCHANGED <<svars, tvars, rvars, hvars>>

\* lib.rs socket_open: thread::sleep(poll_interval) is over
PollSleepEnd ==
    /\ sk.pc = "sleep"
    /\ sk' = [sk EXCEPT !.pc = "lock"]
    /\ UNCHANGED snd
    /\ UNCHANGED <<svars, tvars, rvars, hvars>>

\* a thread enters socket_send
SendInvoke(t) ==
    /\ snd[t].pc = "idle"
    /\ sk.pc # "unopened"
    /\ snd' = [snd EXCEPT ![t].pc = "send"]
    /\ UNCHANGED sk
    /\ UNCHANGED <<svars, tvars, rvars, hvars>>

\* the lock socket_send waits for first: the mutex of the LockedSocket in
\* lib.rs, SOCKETS.read() in socket.rs
CanSend(t) ==
    IF sk.variant = "lib" THEN MutexFree(sk.mx)
    ELSE RwFree(rwlock["sock"], "read")

\* socket.rs socket_send: `SOCKETS.read()` and the lookup of the key; without
\* an entry it returns not_found
SendLookup(t) ==
    /\ snd[t].pc = "send"
    /\ sk.variant = "sockrs"
    /\ CanSend(t)
    /\ IF sockets[SockNs] = Absent
       THEN /\ snd' = [snd EXCEPT
                          ![t] = [pc |-> "done", sent |-> "none",
                                  ret |-> lookup_miss(sockets, SockNs).ret]]
            /\ UNCHANGED rwlock
       ELSE /\ snd' = [snd EXCEPT ![t].pc = "entry"]
            /\ rwlock' = [rwlock EXCEPT
                             !["sock"] = RwTake(rwlock["sock"], t, "read")]
    /\ UNCHANGED <<configs, buffers, sockets, mutex, rth, sk>>
    /\ UNCHANGED <<svars, tvars, hvars>>

\* socket.rs socket_send: `socket.lock()`, the read lock of SOCKETS held
SendLockEntry(t) ==
    /\ snd[t].pc = "entry"
    /\ MutexFree(mutex["sock"][SockNs])
    /\ mutex' = [mutex EXCEPT !["sock"][SockNs] = t]
    /\ snd' = [snd EXCEPT ![t].pc = "locked"]
    /\ UNCHANGED <<configs, buffers, sockets, rwlock, rth, sk>>
    /\ UNCHANGED <<svars, tvars, hvars>>

\* send_to with its result a, and the return.  lib.rs: LockedSocket::send
\* locks the socket, sends and unlocks; socket.rs: both guards are dropped
SendDo(t) ==
    /\ \/ sk.variant = "lib" /\ snd[t].pc = "send" /\ CanSend(t)
       \/ sk.variant = "sockrs" /\ snd[t].pc = "locked"
    /\ \E a \in {"ok", "err"} :
           snd' = [snd EXCEPT
                      ![t] = [pc |-> "done", sent |-> a,
                              ret |-> IF sk.variant = "lib"
                                      THEN socket_send_lib(a)
                                      ELSE socket_send_sockrs(a)]]
    /\ mutex' = IF sk.variant = "lib" THEN mutex
                ELSE [mutex EXCEPT !["sock"][SockNs] = NoThread]
    /\ rwlock' = IF sk.variant = "lib" THEN rwlock
                 ELSE [rwlock EXCEPT !["sock"] = RwDrop(rwlock["sock"], t)]
    /\ UNCHANGED <<configs, buffers, sockets, rth, sk>>
    /\ UNCHANGED <<svars, tvars, hvars>>

\* the result of socket_send is handed to the caller
SendReturn(t) ==
    /\ snd[t].pc = "done"
    /\ snd' = [snd EXCEPT ![t] = IdleSender]
    /\ UNCHANGED sk
    /\ UNCHANGED <<svars, tvars, rvars, hvars>>

\* socket.rs socket_close: `SOCKETS.write()`, the sender's handle leaves
\* SOCKETS
SockClose ==
    /\ sk.variant = "sockrs"
    /\ sockets[SockNs] # Absent
    /\ RwFree(rwlock["sock"], "write")
    /\ sockets' = [sockets EXCEPT ![SockNs] = Absent]
    /\ UNCHANGED <<configs, buffers, rwlock, mutex, rth, sk, snd>>
    /\ UNCHANGED <<svars, tvars, hvars>>

PollerStep == PollLock \/ PollWake \/ PollRecv \/ PollSleepEnd

NextSocket ==
    \/ SockOpen \/ SockInsert \/ Arrive \/ Spurious \/ PollLock \/ PollWake
    \/ PollRecv \/ PollSleepEnd \/ SockClose
    \/ \E t \in Threads :
           \/ SendInvoke(t) \/ SendLookup(t) \/ SendLockEntry(t)
           \/ SendDo(t) \/ SendReturn(t)

SpecSocket == Init /\ [][NextSocket]_vars

\* the poller is an OS thread of its own: it is scheduled whenever it can run
SpecSocketFair == SpecSocket /\ WF_vars(PollerStep)

\* C15: the poller sends a packet notification for a received datagram if
\* and only if its length is at least 4 and at most 1350 bytes, and then
\* exactly one, carrying the sender's address and the bytes received.
\* lib.rs has no lower limit: a datagram of 3 bytes is notified.
C15_NotifyIffInRange ==
    [][(sk.pc = "events" /\ sk'.pc # "events" /\ sk.q # <<>>
        /\ Head(sk.q).k = "dgram")
       => LET d == Head(sk.q)
          IN sk'.notes =
                 IF d.len >= 4 /\ d.len <= 1350
                 THEN Append(sk.notes,
                             [k |-> "__packet__", from |-> d.from,
                              len |-> d.len, id |-> d.id])
                 ELSE sk.notes]_vars

\* C16: after each wake-up the poller drains every datagram pending on the
\* socket before it blocks again: when it is back in the readiness wait
\* with no event pending, no datagram is left queued.  Both variants call
\* recv_from once per event, so a datagram that arrived behind another one
\* stays queued until something else arrives.
C16_PollerDrainsQueue ==
    (sk.pc = "wait" /\ ~sk.ready) => sk.q = <<>>

\* C17: socket_send never contends with the poller's readiness wait: while
\* the poller is blocked waiting for input, a thread in socket_send can take
\* the locks it needs.  In lib.rs the poller waits inside the mutex of the
\* LockedSocket that socket_send locks.
C17_SendNotBlockedByWait ==
    \A t \in Threads :
        (snd[t].pc = "send" /\ sk.pc = "wait" /\ ~sk.ready) => CanSend(t)

\* recv_from failed: with WouldBlock or with another error
RecvFailed == sk.got.k \in {"err", "wouldblock"}

\* the datagram numbered i has been notified to the owner
Notified(i) ==
    \E j \in DOMAIN sk.notes :
        sk.notes[j].k = "__packet__" /\ sk.notes[j].id = i

\* the datagram numbered i, of a length every variant accepts, is the next
\* one recv_from will give, and the readiness event for it is raised or
\* already taken
NextUp(i) ==
    /\ sk.q # <<>>
    /\ Head(sk.q).k = "dgram"
    /\ Head(sk.q).id = i
    /\ Head(sk.q).len >= MinHeader
    /\ Head(sk.q).len <= MaxDatagram
    /\ (sk.ready \/ sk.pc = "events")

\* C18: a receive error never ends the poller loop.  After recv_from has
\* failed, with WouldBlock or otherwise, the poller thread gets back to the
\* readiness wait; a datagram that is then next on the socket with its
\* readiness event raised is delivered as a packet notification; and after
\* socket_close has removed the sender's handle a readiness event still
\* leads the poller to receive.
C18_ErrorKeepsPollerRunning ==
    /\ RecvFailed ~> (sk.pc = "wait")
    /\ \A i \in 1..MaxDgrams : (RecvFailed /\ NextUp(i)) ~> Notified(i)
    /\ (sk.variant = "sockrs" /\ sockets[SockNs] = Absent /\ sk.ready)
           ~> (sk.pc = "events")

\* socket.rs: the handle is closed, an error has been notified and a
\* datagram that arrived after it has been delivered; the poller waits again
C18_Witness ==
    /\ sk.variant = "sockrs"
    /\ sockets[SockNs] = Absent
    /\ sk.pc = "wait"
    /\ \E i, j \in DOMAIN sk.notes :
        /\ i < j
        /\ sk.notes[i].k = "socket_error"
        /\ sk.notes[j].k = "__packet__"

\* C19: socket_send reports a failed UDP send to its caller: when send_to
\* has failed the value socket_send returns is not the value it returns on
\* success, and when send_to has succeeded it returns ok.  lib.rs drops the
\* result of Socket::send and returns ok in both cases.
C19_SendFailureReported ==
    \A t \in Threads :
        snd[t].pc = "done" =>
            /\ snd[t].sent = "err" => snd[t].ret # Ok(0)
            /\ snd[t].sent = "ok" => snd[t].ret = Ok(0)

\* C20: a namespace's scratch buffer is used by one builder call at a
\* time, and what a builder call returns is exactly the bytes that call
\* formatted, in length and in content, whatever other builder calls on the
\* namespace wrote into the buffer before or after.
C20_BuilderOwnsBuffer ==
    /\ \A t \in Threads, u \in Threads :
        (t # u /\ rth[t].pc = "copy" /\ rth[u].pc = "copy")
            => rth[t].ns # rth[u].ns
    /\ \A t \in Threads :
        (rth[t].pc = "copy")
            => /\ mutex["buf"][rth[t].ns] = t
               /\ CopyOut(Val(buffers[rth[t].ns]),
                          Len(Formatted(rth[t].arg))) = Formatted(rth[t].arg)
    /\ \A t \in Threads :
        (rth[t].pc = "done" /\ rth[t].op = "build" /\ rth[t].ret = Ok(0))
            => rth[t].out = Formatted(rth[t].arg)

\* t1 has its version negotiation packet while t2, called concurrently on
\* the same namespace, has since formatted a longer retry packet into the
\* buffer
C20_Witness ==
    /\ rth["t1"].pc = "done"
    /\ rth["t1"].op = "build"
    /\ rth["t1"].arg.kind = "vn"
    /\ rth["t1"].out = <<128, 11, 12>>
    /\ rth["t2"].pc = "copy"
    /\ rth["t2"].arg.kind = "retry"
    /\ rth["t2"].ns = rth["t1"].ns
    /\ Len(Val(buffers[rth["t1"].ns])) > Len(rth["t1"].out)

(***************************************************************************)
(* packet_parse_header (lib.rs 772-810).  quiche::Header::from_slice and   *)
(* quiche::version_is_supported belong to the engine: what they answer for *)
(* the packet is the environment's choice, either a rejection or a header  *)
(* with its connection ids, its token if it has one, its version and type, *)
(* and whether the engine supports that version.                           *)
(***************************************************************************)
CidVals == {<<>>, <<1>>, <<1, 2>>}
TokenVals == {Absent, Some(<<>>), Some(<<5>>)}
VersionVals == {1, 168430090}
PacketTypes == {"initial", "short", "version_negotiation", "retry",
                "handshake", "zero_rtt"}

ParseAnswers ==
    [r : {"ok"}, scid : CidVals, dcid : CidVals, token : TokenVals,
     version : VersionVals, ty : PacketTypes, sup : BOOLEAN]
    \cup {[NoHeader EXCEPT !.r = "err"]}

\* fn header_scid_binary
header_scid_binary(h) == h.scid

\* fn header_dcid_binary
header_dcid_binary(h) == h.dcid

\* fn header_token_binary
header_token_binary(h) == IF h.token # Absent THEN Val(h.token) ELSE <<>>

\* fn packet_type: the atom for the header's type
packet_type(ty) == ty

\* a parser NIF answering ok with empty fields for what the engine rejects
packet_parse_header_partial(a) ==
    IF a.r = "ok"
    THEN [k |-> "ok", scid |-> header_scid_binary(a),
          dcid |-> header_dcid_binary(a), token |-> header_token_binary(a),
          version |-> a.version, ty |-> packet_type(a.ty), sup |-> a.sup]
    ELSE [k |-> "ok", scid |-> <<>>, dcid |-> <<>>, token |-> <<>>,
          version |-> 0, ty |-> "none", sup |-> FALSE]

\* fn packet_parse_header, for the answer a of Header::from_slice
packet_parse_header(a) ==
    IF a.r = "ok"
    THEN [k |-> "ok", scid |-> header_scid_binary(a),
          dcid |-> header_dcid_binary(a), token |-> header_token_binary(a),
          version |-> a.version, ty |-> packet_type(a.ty), sup |-> a.sup]
    ELSE [k |-> "bad_format", scid |-> <<>>, dcid |-> <<>>, token |-> <<>>,
          version |-> 0, ty |-> "none", sup |-> FALSE]

\* a process calls packet_parse_header on a packet
ParseHeader ==
    /\ hp.pc = "idle"
    /\ \E a \in ParseAnswers :
           hp' = [pc |-> "done", ans |-> a, ret |-> packet_parse_header(a)]
    /\ UNCHANGED <<svars, tvars, rvars, pvars>>

\* the result reaches the caller
ParseReturn ==
    /\ hp.pc = "done"
    /\ hp' = IdleParse
    /\ UNCHANGED <<svars, tvars, rvars, pvars>>

NextHeader == ParseHeader \/ ParseReturn

SpecHeader == Init /\ [][NextHeader]_vars

\* C21: packet_parse_header returns either ok with the six fields of the
\* header the engine parsed (source id, destination id, token, version,
\* packet type, version-supported flag) or bad_format, the latter exactly
\* when the engine rejects the bytes; a header without a token is reported
\* with the empty token.
C21_ParseHeaderTotal ==
    hp.pc = "done" =>
        /\ hp.ret.k \in {"ok", "bad_format"}
        /\ hp.ans.r # "ok" <=> hp.ret.k = "bad_format"
        /\ hp.ret.k = "ok" =>
            /\ hp.ret.scid = hp.ans.scid
            /\ hp.ret.dcid = hp.ans.dcid
            /\ hp.ret.version = hp.ans.version
            /\ hp.ret.ty = hp.ans.ty
            /\ hp.ret.ty \in PacketTypes
            /\ hp.ret.sup = hp.ans.sup
            /\ hp.ans.token = <<>> => hp.ret.token = <<>>
            /\ hp.ans.token # <<>> => hp.ret.token = hp.ans.token[1]

\* a retry header with a token, one without a token, and a rejection are
\* three of the calls; this is the one without a token
C21_Witness ==
    /\ hp.pc = "done"
    /\ hp.ret.k = "ok"
    /\ hp.ans.token = <<>>
    /\ hp.ret.token = <<>>
    /\ hp.ret.scid = <<1>>
    /\ hp.ret.ty = "initial"

\* C22: an on_packet call sends __stream_recv__ or __dgram_recv__
\* notifications only if the connection, after the engine accepted the
\* packet, is in early data or established; while it is still handshaking
\* the call's only notifications are __drain__.  When it delivers, every
\* read of a stream that gave bytes is notified at once and is followed by
\* further reads of that stream up to the one that gives nothing, so that
\* no stream is left readable.
C22_DeliveryOnlyWhenReady ==
    last.op = "on_packet" =>
        /\ (\E i \in DOMAIN last.tr :
                last.tr[i].k \in {"__stream_recv__", "__dgram_recv__"})
            => (last.ret.k = "ok" /\ conn.phase \in {"early", "established"})
        /\ conn.phase = "handshake"
            => \A i \in DOMAIN last.tr :
                   IsNote(last.tr[i]) => last.tr[i].k = "__drain__"
        /\ (last.ret.k = "ok" /\ conn.phase \in {"early", "established"})
            => /\ \A s \in Streams : conn.rx[s] = 0
               /\ \A i \in DOMAIN last.tr :
                   (last.tr[i].k = "stream_recv" /\ last.tr[i].r = "ok")
                   => /\ i < Len(last.tr)
                      /\ last.tr[i + 1].k = "__stream_recv__"
                      /\ last.tr[i + 1].v = last.tr[i].v
                      /\ \E j \in DOMAIN last.tr :
                          /\ j > i
                          /\ last.tr[j].k = "stream_recv"
                          /\ last.tr[j].r = "done"
                          /\ last.tr[j].v[1] = last.tr[i].v[1]

\* a packet accepted during the handshake: stream bytes stay in the engine
\* and the call has notified a drained packet only
C22_Witness ==
    /\ last.op = "on_packet"
    /\ last.ret.k = "ok"
    /\ conn.phase = "handshake"
    /\ conn.rx[0] > 0
    /\ \E i \in DOMAIN last.tr : last.tr[i].k = "__drain__"

\* the engine writes of a stream_send call, in order
Writes(tr) == SelectSeq(tr, LAMBDA ev : ev.k = "stream_send")

\* C23: every iteration of stream_send's loop either advances the cursor by
\* at least one byte or is the last one, so a call with n bytes makes at
\* most n engine writes (one for an empty call).  The loop goes on after a
\* write the engine accepted with length zero while bytes remain.
C23_SendLoopProgress ==
    last.op = "stream_send" =>
        LET w == Writes(last.tr) IN
        /\ \A i \in DOMAIN w :
               i < Len(w) => (w[i].r = "ok" /\ w[i].v[3] >= 1)
        /\ Len(w) <= IF Len(last.in.data) = 0 THEN 1 ELSE Len(last.in.data)

\* the number of bytes the engine accepted in the first k writes of w
RECURSIVE AcceptedIn(_, _)
AcceptedIn(w, k) ==
    IF k = 0 THEN 0
    ELSE AcceptedIn(w, k - 1) + (IF w[k].r = "ok" THEN w[k].v[3] ELSE 0)

\* C24: within one stream_send call the k-th engine write is offered the
\* data from the offset that is the sum of the lengths accepted by the
\* writes before it, offset plus accepted length never exceeds the length
\* of the data, and what the engine holds for the stream afterwards ends
\* with the accepted prefix of the data, byte for byte.
C24_SendOffersUnsentSuffix ==
    last.op = "stream_send" =>
        LET w == Writes(last.tr)
            n == AcceptedIn(w, Len(w))
            tx == conn.tx[last.in.sid]
        IN /\ \A k \in DOMAIN w :
                /\ w[k].v[2] = AcceptedIn(w, k - 1)
                /\ w[k].v[2] <= Len(last.in.data)
           /\ n <= Len(last.in.data)
           /\ n <= Len(tx)
           /\ Drop(tx, Len(tx) - n) = Take(last.in.data, n)

\* two bytes sent in two writes: one byte accepted at offset 0, the other
\* at offset 1
C24_Witness ==
    /\ last.op = "stream_send"
    /\ last.in.data = <<1, 2>>
    /\ conn.tx[0] = <<1, 2>>
    /\ LET w == Writes(last.tr) IN
       /\ Len(w) = 2
       /\ w[1].v = <<0, 0, 1>>
       /\ w[2].v = <<0, 1, 1>>

\* the engine call a notification reports
ReadOf(k) ==
    CASE k = "__stream_recv__" -> "stream_recv"
      [] k = "__dgram_recv__" -> "dgram_recv"
      [] OTHER -> "send"

\* the number of bytes a notification carries
NoteLen(ev) ==
    CASE ev.k = "__stream_recv__" -> ev.v[2]
      [] ev.k = "__dgram_recv__" -> ev.v
      [] OTHER -> ev.v.len

\* the bytes of stream s notified in the first k entries of a trace
RECURSIVE StreamBytes(_, _, _)
StreamBytes(tr, s, k) ==
    IF k = 0 THEN 0
    ELSE StreamBytes(tr, s, k - 1)
         + (IF tr[k].k = "__stream_recv__" /\ tr[k].v[1] = s
            THEN tr[k].v[2] ELSE 0)

\* C25: every __stream_recv__, __dgram_recv__ and __drain__ notification
\* of a call carries at most 1350 bytes and exactly what the engine read
\* just before it put into the connection's buffer; after a stream
\* notification the same stream is read again, and a stream that has
\* reported nothing more is not read again in the call, so the
\* notifications of one stream follow one another; and an on_packet call
\* that delivers notifies, for every stream, as many bytes as the stream
\* had readable, leaving none.
C25_NotesCarryBufferChunks ==
    /\ [](last.op \in DriverOps =>
            /\ \A i \in DOMAIN last.tr :
                IsNote(last.tr[i]) =>
                    /\ NoteLen(last.tr[i]) <= 1350
                    /\ i > 1
                    /\ last.tr[i - 1].k = ReadOf(last.tr[i].k)
                    /\ last.tr[i - 1].r = "ok"
                    /\ last.tr[i - 1].v = last.tr[i].v
            /\ \A i \in DOMAIN last.tr :
                last.tr[i].k = "__stream_recv__" =>
                    /\ i < Len(last.tr)
                    /\ last.tr[i + 1].k = "stream_recv"
                    /\ last.tr[i + 1].v[1] = last.tr[i].v[1]
            /\ \A i \in DOMAIN last.tr :
                (last.tr[i].k = "stream_recv" /\ last.tr[i].r # "ok") =>
                    \A j \in (i + 1)..Len(last.tr) :
                        last.tr[j].k = "stream_recv"
                            => last.tr[j].v[1] # last.tr[i].v[1])
    /\ [][(last = Idle /\ last'.op = "on_packet" /\ last'.ret.k = "ok"
              /\ conn'.phase \in {"early", "established"})
          => /\ \A s \in Streams : conn'.rx[s] = 0
             /\ \E pl \in Payloads :
                 /\ pl.rx # NoRx => conn.rx = NoRx
                 /\ \A s \in Streams :
                     StreamBytes(last'.tr, s, Len(last'.tr))
                         = conn.rx[s] + pl.rx[s]]_vars

\* a stream holding 1351 bytes has been delivered as a notification of
\* 1350 bytes directly followed by one of 1 byte
C25_Witness ==
    /\ last.op = "on_packet"
    /\ \E i \in DOMAIN last.tr :
        /\ i + 2 <= Len(last.tr)
        /\ last.tr[i].k = "__stream_recv__"
        /\ last.tr[i].v = <<0, 1350>>
        /\ last.tr[i + 2].k = "__stream_recv__"
        /\ last.tr[i + 2].v = <<0, 1>>

\* C27: in every reachable state a namespace that has a configuration has
\* a scratch buffer (quic_init inserts the buffer first, so a failed
\* Config::new leaves a buffer without a configuration, never the
\* reverse), and no step removes a namespace from either table.
C27_ConfigImpliesBuffer ==
    /\ [](\A ns \in Namespaces :
              configs[ns] # Absent => buffers[ns] # Absent)
    /\ [][\A ns \in Namespaces :
              /\ configs[ns] # Absent => configs'[ns] # Absent
              /\ buffers[ns] # Absent => buffers'[ns] # Absent]_vars

\* quic_init on A has returned system_error: A has its buffer and no
\* configuration
C27_Witness ==
    /\ rth["t1"].pc = "done"
    /\ rth["t1"].op = "init"
    /\ rth["t1"].ns = "A"
    /\ rth["t1"].ret = Err("system_error")
    /\ buffers["A"] # Absent
    /\ configs["A"] = Absent

(***************************************************************************)
(* The locks of the NIFs together: quic_init, a configuration setter,      *)
(* connection_accept and a builder on the two namespaces, and the          *)
(* operations on a connection, which take the connection's mutex and       *)
(* nothing else (lib.rs 699-770).  rth[t] is the position of thread t in   *)
(* its NIF; for a connection NIF th[t] holds the call, the position in the *)
(* loop of stream_send, the notifications it has still to send and the     *)
(* number of connection calls t has made.                                  *)
(***************************************************************************)
\* The calls: the registry NIFs on both namespaces, each with one argument,
\* and a connection NIF
LockCalls ==
    {c \in RegCalls :
        /\ c.op \in {"init", "accept", "set_config", "build"}
        /\ c.arg.kind \in {"none", "idle", "vn"}}
    \cup {[op |-> "conn", ns |-> "A", arg |-> NoArg]}

\* a thread enters one of these NIFs; a connection NIF with its arguments
LockInvoke(t) ==
    /\ rth[t].pc = "idle"
    /\ \E c \in LockCalls :
        /\ rth' = [rth EXCEPT ![t] =
                      [IdleCaller EXCEPT
                          !.pc = IF c.op = "init" THEN "buffer_init"
                                 ELSE "reg",
                          !.op = c.op, !.ns = c.ns, !.arg = c.arg]]
        /\ IF c.op = "conn"
           THEN /\ th[t].n < MaxConnCalls
                /\ \E k \in ThreadCalls : th' = [th EXCEPT ![t].call = k]
           ELSE UNCHANGED th
    /\ UNCHANGED <<lock, mbox>>
    /\ UNCHANGED <<configs, buffers, sockets, rwlock, mutex>>
    /\ UNCHANGED <<svars, pvars, hvars>>

\* a connection NIF: `conn.conn.lock().unwrap()`
ConnAcquire(t) ==
    /\ rth[t].pc = "reg"
    /\ rth[t].op = "conn"
    /\ MutexFree(lock)
    /\ lock' = t
    /\ rth' = [rth EXCEPT ![t].pc = "entry"]
    /\ UNCHANGED <<th, mbox>>
    /\ UNCHANGED <<configs, buffers, sockets, rwlock, mutex>>
    /\ UNCHANGED <<svars, pvars, hvars>>

\* stream_send's loop: the engine accepts the write with length 0 while
\* bytes remain (`Ok(len)` with len = 0, `pos += len`); `self.drain` is next.
\* The closed test is made once, before the loop; th[t].pc = "loop" is the
\* head of the loop after a round, with the cursor still at 0
ConnWriteZero(t) ==
    /\ rth[t].pc = "entry"
    /\ rth[t].op = "conn"
    /\ th[t].pc \in {"idle", "loop"}
    /\ th[t].call.op = "stream_send"
    /\ th[t].pc = "idle" => ~EngIsClosed(conn)
    /\ Len(th[t].call.arg.data) > 0
    /\ LET a == EngStreamSend(conn, th[t].call.arg.sid, th[t].call.arg.data,
                              TRUE, [r |-> "cap", n |-> 0]) IN
       /\ a.r = "ok"
       /\ a.len = 0
       /\ conn' = a.e
    /\ th' = [th EXCEPT ![t].pc = "zero"]
    /\ UNCHANGED <<lock, mbox, last, closeOk>>
    /\ UNCHANGED rvars
    /\ UNCHANGED <<pvars, hvars>>

\* stream_send's loop after that write: `self.drain`, then `pos >= size` is
\* false and the loop offers the same bytes again
ConnDrainZero(t) ==
    /\ rth[t].pc = "entry"
    /\ th[t].pc = "zero"
    /\ LET dr == drain(conn)
           ns == Notes(dr.tr) IN
       /\ conn' = dr.e
       /\ mbox' = mbox \o [i \in 1..Len(ns) |->
                               [t |-> t, n |-> th[t].n, note |-> ns[i].k]]
    /\ th' = [th EXCEPT ![t].pc = "loop"]
    /\ UNCHANGED <<lock, last, closeOk>>
    /\ UNCHANGED rvars
    /\ UNCHANGED <<pvars, hvars>>

\* the Connection method under the guard, to its end: the closed test and
\* the engine calls; stream_send after zero-length rounds goes on in its
\* loop
ConnBody(t) ==
    /\ rth[t].pc = "entry"
    /\ rth[t].op = "conn"
    /\ th[t].pc \in {"idle", "loop"}
    /\ LET c == th[t].call
           r == IF th[t].pc = "idle" THEN Perform(conn, c)
                ELSE stream_send_open(conn, c.arg.sid, c.arg.data,
                                      c.arg.script) IN
       /\ conn' = r.e
       /\ th' = [th EXCEPT ![t].pc = "idle", ![t].todo = Notes(r.tr),
                            ![t].ret = r.ret]
    /\ rth' = [rth EXCEPT ![t].pc = "emit"]
    /\ UNCHANGED <<lock, mbox, last, closeOk>>
    /\ UNCHANGED <<configs, buffers, sockets, rwlock, mutex>>
    /\ UNCHANGED <<pvars, hvars>>

\* one `env.send(pid, ..)` of the method
ConnEmit(t) ==
    /\ rth[t].pc = "emit"
    /\ th[t].todo # <<>>
    /\ mbox' = Append(mbox, [t |-> t, n |-> th[t].n,
                             note |-> Head(th[t].todo).k])
    /\ th' = [th EXCEPT ![t].todo = Tail(th[t].todo)]
    /\ UNCHANGED lock
    /\ UNCHANGED rvars
    /\ UNCHANGED <<svars, pvars, hvars>>

\* the NIF returns the method's result and the guard is dropped
ConnRelease(t) ==
    /\ rth[t].pc = "emit"
    /\ th[t].todo = <<>>
    /\ lock' = NoThread
    /\ rth' = [rth EXCEPT ![t].pc = "done", ![t].ret = th[t].ret]
    /\ th' = [th EXCEPT ![t] = [IdleThread EXCEPT !.n = th[t].n + 1]]
    /\ UNCHANGED mbox
    /\ UNCHANGED <<configs, buffers, sockets, rwlock, mutex>>
    /\ UNCHANGED <<svars, pvars, hvars>>

\* the step ConnBody as the position of thread t shows it
ConnBodyPos(t) ==
    /\ rth[t].pc = "entry"
    /\ rth[t].op = "conn"
    /\ th[t].pc \in {"idle", "loop"}
    /\ rth' = [rth EXCEPT ![t].pc = "emit"]

\* the steps of thread t inside a NIF, up to its return, but for the
\* engine's answers inside the Connection method
InsideStep(t) ==
    \/ RegBufferInit(t) \/ RegConfigInit(t) \/ RegLookup(t)
    \/ RegSetConfig(t) \/ RegAccept(t) \/ RegFormat(t) \/ RegCopyOut(t)
    \/ ConnAcquire(t) \/ ConnDrainZero(t) \/ ConnEmit(t) \/ ConnRelease(t)

NextLocks ==
    \E t \in Threads :
        \/ LockInvoke(t) \/ RegBufferInit(t) \/ RegConfigInit(t)
        \/ RegLookup(t) \/ RegSetConfig(t) \/ RegAccept(t)
        \/ RegFormat(t) \/ RegCopyOut(t)
        \/ ConnAcquire(t) \/ ConnWriteZero(t) \/ ConnDrainZero(t)
        \/ ConnBody(t) \/ ConnEmit(t) \/ ConnRelease(t)
        \/ RegReturn(t)

SpecLocks == Init /\ [][NextLocks]_vars

\* every thread inside a NIF is scheduled, and a thread waiting for a lock
\* that becomes free again and again gets it; what the engine answers to a
\* write of stream_send is the engine's choice every time
SpecLocksFair ==
    SpecLocks /\ \A t \in Threads : /\ SF_vars(InsideStep(t))
                                    /\ WF_rth(ConnBodyPos(t))

\* the registry locks thread t holds
HeldTables(t) == {tb \in Tables : rwlock[tb].w = t \/ t \in rwlock[tb].r}

\* C26: the calls of quic_init, setters, connection_accept, builders and
\* connection operations from several threads never deadlock: a thread
\* holds at most one registry lock at a time, holds an entry's mutex only
\* together with the lock of that entry's registry, and holds the
\* connection's mutex only inside a connection operation, with no registry
\* lock held or waited for; whenever a call is under way some thread can
\* take a step; and every call reaches its return.  The lock discipline
\* holds; connection_stream_send does not return while the engine accepts
\* its write with length 0, and it keeps the connection's mutex, so the
\* connection NIF of another thread does not return either.
C26_NoDeadlock ==
    /\ [](\A t \in Threads :
            /\ Cardinality(HeldTables(t)) <= 1
            /\ \A tb \in Tables, ns \in Namespaces :
                   mutex[tb][ns] = t => tb \in HeldTables(t)
            /\ lock = t => (/\ rth[t].op = "conn"
                            /\ rth[t].pc \in {"entry", "emit"}
                            /\ HeldTables(t) = {}))
    /\ []((\E t \in Threads : rth[t].pc \notin {"idle", "done"})
            => \E u \in Threads :
                   ENABLED (InsideStep(u) \/ ConnBodyPos(u)))
    /\ \A t \in Threads :
           (rth[t].pc \notin {"idle", "done"}) ~> (rth[t].pc = "done")

=============================================================================
